---- MODULE Spec2Model ----
(***************************************************************************)
(* A model of the SecondBrain core of claude-telegram-relay: the          *)
(* frontmatter codec (utils/frontmatter.ts), the classification gateway   *)
(* and capture pipeline (services/capture.ts) and the digest scheduler    *)
(* (services/scheduler.ts).                                               *)
(*                                                                         *)
(* Each subsystem has its own specification over its own variables; the    *)
(* variables of the other subsystems are held fixed by it.                 *)
(*   SpecCodec    : stringifyFrontmatter followed by parseFrontmatter     *)
(*   SpecClassify : CaptureService.classify on every bounded response     *)
(*   SpecCapture  : CaptureService.capture, step by step at each await    *)
(*   SpecSched    : SchedulerService start/stop/timers/triggerNow         *)
(* and, for the calls that overlap in the event loop or across processes, *)
(* with the same variables holding each call's place at its awaits:       *)
(*   SpecLockRace    : acquire() of two processes on one lock file        *)
(*   SpecSessionRace : updateActivity() and clear() on one session file   *)
(*   SpecScanRace    : scanAllDocuments() during a fixCapture()           *)
(*   SpecStatsRace   : getStats() with a capture or fix between its scans *)
(*   SpecCaptureRace : two capture() calls                                *)
(***************************************************************************)
EXTENDS Integers, Sequences, FiniteSets, TLC

VARIABLES
    \* codec: the metadata and body drawn, the encoded text, the decoded pair
    cdPc, cdMeta, cdBody, cdText, cdOut,
    \* classify: the thought and the service's response, the outcome
    clsPc, clsThought, clsResp, clsOut,
    \* capture: the configuration, the call in flight, what it returned, the
    \* wall clock in seconds, and the store: files, directories, audit log
    \* and version-control commits
    capCfg, cap, capRet, now, store, dirs, auditLog, commits,
    \* scheduler: the digest configuration, the wall clock in units of a
    \* day's fraction, the scheduler and the runtime's timers, the timer
    \* callbacks and the manual run in flight, whether start() was the last
    \* of start() and stop() to be called, and the record of every re-arming
    schedCfg, clk, sched, running, manual, started, rearms,
    \* next occurrence: one computation of a delay, its inputs and its result
    occ,
    \* fixer: the last fixCapture call and what it returned, and the captures
    \* and fixes run so far
    fix, ops,
    \* readers: one last-capture lookup over an audit log, and one scan of a
    \* data directory, each with its inputs and its result
    look, scan,
    \* synthesis and digest: one call on a list of scanned documents and its
    \* result; the message queue; the session file and the last session call;
    \* the lock file and the last lock call; the bot's handling of one update
    syn, mq, sess, lck, bot

cdVars == <<cdPc, cdMeta, cdBody, cdText, cdOut>>
clsVars == <<clsPc, clsThought, clsResp, clsOut>>
capVars == <<capCfg, cap, capRet, now, store, dirs, auditLog, commits>>
fixVars == <<fix, ops>>
readVars == <<look, scan>>
svcVars == <<syn, mq, sess, lck, bot>>
schedVars == <<schedCfg, clk, sched, running, manual, started, rearms>>
vars == <<cdVars, clsVars, capVars, schedVars, occ, fixVars, readVars, svcVars>>
nonCdVars == <<clsVars, capVars, schedVars, occ, fixVars, readVars, svcVars>>
nonClsVars == <<cdVars, capVars, schedVars, occ, fixVars, readVars, svcVars>>
nonCapVars == <<cdVars, clsVars, schedVars, occ, fixVars, readVars, svcVars>>
nonSchedVars == <<cdVars, clsVars, capVars, occ, fixVars, readVars, svcVars>>

(***************************************************************************)
(* Bounds of the model.                                                    *)
(***************************************************************************)
\* The longest reasoning-service response, in tokens.
MaxTokens == 3
\* The most entries of a metadata map drawn for the codec.
MaxEntries == 2
\* The seconds the wall clock may advance during one capture.
MaxClock == 1
\* The clock units in a day.
DayLen == 2
\* The last instant of the scheduler's clock.
MaxTime == 3
\* The most timers the scheduler arms in one run.
MaxTimers == 3
\* The most captures and fixes run on one store.
MaxOps == 2
MaxLog == 2
MaxFaults == 1
MaxDocs == 4
MaxTasks == 4
MaxTtl == 2
MaxCount == 3
MaxPid == 3

(***************************************************************************)
(* Strings are sequences of characters.  A character is a one-character    *)
(* string, or a whole word of letters standing for that run of letters     *)
(* ("true", "name"): no operation of the program splits a word.            *)
(***************************************************************************)
SP == " "
NL == "\n"
DigitChars == <<"0", "1", "2", "3", "4", "5", "6", "7", "8", "9">>
Punctuation == {SP, NL, "-", ":", ".", "'", "#"}

IsDigit(c) == \E i \in 1..10 : DigitChars[i] = c
DigitVal(c) == (CHOOSE i \in 1..10 : DigitChars[i] = c) - 1
\* \s
IsSpace(c) == c \in {SP, NL}
\* [a-zA-Z_]
IsAlpha(c) == ~IsDigit(c) /\ c \notin Punctuation
\* \w
IsWord(c) == IsAlpha(c) \/ IsDigit(c)

SetMin(S) == CHOOSE x \in S : \A y \in S : x <= y
SetMax(S) == CHOOSE x \in S : \A y \in S : y <= x

\* String.prototype.trimStart, trimEnd, trim
\* F applied to a value that is computed once, however often F reads it.
applyTo(value, F(_)) == CHOOSE out \in {F(x) : x \in {value}} : TRUE

trimStart(s) ==
    LET keep == {i \in 1..Len(s) : ~IsSpace(s[i])}
    IN  IF keep = {} THEN <<>> ELSE SubSeq(s, SetMin(keep), Len(s))
trimEnd(s) ==
    LET keep == {i \in 1..Len(s) : ~IsSpace(s[i])}
    IN  IF keep = {} THEN <<>> ELSE SubSeq(s, 1, SetMax(keep))
trim(s) == trimEnd(trimStart(s))

\* s.slice(k) with k counted from 0
sliceFrom(s, k) == SubSeq(s, k + 1, Len(s))

\* s.indexOf("---", from), counted from 0; -1 when absent
indexOfDashes(s, from) ==
    LET hits == {i \in (from + 1)..(Len(s) - 2) :
                    s[i] = "-" /\ s[i + 1] = "-" /\ s[i + 2] = "-"}
    IN  IF hits = {} THEN 0 - 1 ELSE SetMin(hits) - 1

\* s.split("\n")
RECURSIVE splitLines(_)
splitLines(s) ==
    applyTo(s, LAMBDA x :
        LET nls == {i \in 1..Len(x) : x[i] = NL}
        IN  IF nls = {} THEN <<x>>
            ELSE <<SubSeq(x, 1, SetMin(nls) - 1)>> \o splitLines(sliceFrom(x, SetMin(nls))))

\* lines.join("\n")
RECURSIVE joinLines(_)
joinLines(lines) ==
    IF Len(lines) = 0 THEN <<>>
    ELSE IF Len(lines) = 1 THEN lines[1]
    ELSE lines[1] \o <<NL>> \o joinLines(Tail(lines))

(***************************************************************************)
(* Numbers are decimals m * 10^(-e), kept normal: e = 0 or 10 does not    *)
(* divide m.                                                               *)
(***************************************************************************)
RECURSIVE Pow10(_)
Pow10(n) == IF n = 0 THEN 1 ELSE 10 * Pow10(n - 1)

RECURSIVE Norm(_, _)
Norm(m, e) == IF e > 0 /\ m % 10 = 0 THEN Norm(m \div 10, e - 1) ELSE [m |-> m, e |-> e]

\* a < b
NumLess(a, b) == a.m * Pow10(b.e) < b.m * Pow10(a.e)

RECURSIVE natDigits(_)
natDigits(n) ==
    IF n < 10 THEN <<DigitChars[n + 1]>>
    ELSE natDigits(n \div 10) \o <<DigitChars[(n % 10) + 1]>>

RECURSIVE fracDigits(_, _)
fracDigits(n, places) ==
    IF places = 0 THEN <<>>
    ELSE fracDigits(n \div 10, places - 1) \o <<DigitChars[(n % 10) + 1]>>

\* String(x) for a number below 1e21 in size and, unless zero, at least 1e-6
numToString(x) ==
    LET a == IF x.m < 0 THEN 0 - x.m ELSE x.m
        whole == a \div Pow10(x.e)
        frac == a % Pow10(x.e)
    IN  (IF x.m < 0 THEN <<"-">> ELSE <<>>)
        \o natDigits(whole)
        \o (IF x.e = 0 THEN <<>> ELSE <<".">> \o fracDigits(frac, x.e))

RECURSIVE digitsVal(_)
digitsVal(ds) ==
    IF Len(ds) = 0 THEN 0
    ELSE 10 * digitsVal(SubSeq(ds, 1, Len(ds) - 1)) + DigitVal(ds[Len(ds)])

\* /^-?\d+(\.\d+)?$/
isNumeric(raw) ==
    LET body == IF Len(raw) > 0 /\ raw[1] = "-" THEN Tail(raw) ELSE raw
        dots == {i \in 1..Len(body) : body[i] = "."}
    IN  /\ Len(body) > 0
        /\ \A i \in 1..Len(body) : IsDigit(body[i]) \/ body[i] = "."
        /\ Cardinality(dots) <= 1
        /\ \A i \in dots : i > 1 /\ i < Len(body)

\* Number(raw) for a raw that isNumeric
toNumber(raw) ==
    LET neg == raw[1] = "-"
        body == IF neg THEN Tail(raw) ELSE raw
        dots == {i \in 1..Len(body) : body[i] = "."}
        digits == SelectSeq(body, IsDigit)
        places == IF dots = {} THEN 0 ELSE Len(body) - SetMin(dots)
        mag == digitsVal(digits)
    IN  Norm(IF neg THEN 0 - mag ELSE mag, places)

(***************************************************************************)
(* Values of a metadata map.                                               *)
(***************************************************************************)
VStr(s) == [t |-> "str", v |-> s]
VNum(x) == [t |-> "num", v |-> x]
VBool(b) == [t |-> "bool", v |-> b]
VArr(items) == [t |-> "arr", v |-> items]
\* undefined or null
VNone == [t |-> "none"]

\* A metadata map is the sequence of its entries <<key, value>>, in
\* insertion order, each key once.
metaKeys(meta) == {meta[i][1] : i \in 1..Len(meta)}
metaGet(meta, key) == meta[CHOOSE i \in 1..Len(meta) : meta[i][1] = key][2]

\* metadata[key] = value
metaSet(meta, key, value) ==
    IF key \in metaKeys(meta)
    THEN [i \in 1..Len(meta) |-> IF meta[i][1] = key THEN <<key, value>> ELSE meta[i]]
    ELSE Append(meta, <<key, value>>)

\* The map itself, whatever the order of its entries.
metaMap(meta) == [k \in metaKeys(meta) |-> metaGet(meta, k)]

(***************************************************************************)
(* utils/frontmatter.ts                                                    *)
(***************************************************************************)
parseValue(raw) ==
    IF raw = <<>> THEN VStr(<<>>)
    ELSE IF raw = <<"true">> THEN VBool(TRUE)
    ELSE IF raw = <<"false">> THEN VBool(FALSE)
    ELSE IF isNumeric(raw) THEN VNum(toNumber(raw))
    ELSE VStr(raw)

\* /^([a-zA-Z_][\w]*)\s*:\s*(.*)$/ on one line: whether it matches, the key
\* and the trimmed value
keyMatch(line) ==
    LET n == Len(line)
        nonWord == {i \in 1..n : ~IsWord(line[i])}
        keyEnd == IF nonWord = {} THEN n ELSE SetMin(nonWord) - 1
        nonSpace == {i \in (keyEnd + 1)..n : ~IsSpace(line[i])}
        colon == IF nonSpace = {} THEN 0 ELSE SetMin(nonSpace)
    IN  IF n > 0 /\ IsAlpha(line[1]) /\ colon > 0 /\ line[colon] = ":"
        THEN [ok |-> TRUE, key |-> SubSeq(line, 1, keyEnd),
              raw |-> trim(sliceFrom(line, colon))]
        ELSE [ok |-> FALSE]

\* /^\s+-\s/ on one line
isArrayLine(line) ==
    LET nonSpace == {i \in 1..Len(line) : ~IsSpace(line[i])}
        dash == IF nonSpace = {} THEN 0 ELSE SetMin(nonSpace)
    IN  /\ dash > 1
        /\ line[dash] = "-"
        /\ dash < Len(line)
        /\ IsSpace(line[dash + 1])

\* /^\s+-\s+(.*)$/ group 1, trimmed, of a line that isArrayLine
arrayItem(line) ==
    LET dash == SetMin({i \in 1..Len(line) : ~IsSpace(line[i])})
    IN  trim(sliceFrom(line, dash))

\* parseArrayItems(lines, startIndex), indices counted from 1
RECURSIVE parseArrayItems(_, _)
parseArrayItems(lines, i) ==
    IF i <= Len(lines) /\ isArrayLine(lines[i])
    THEN LET more == parseArrayItems(lines, i + 1)
         IN  [items |-> <<arrayItem(lines[i])>> \o more.items, nextIndex |-> more.nextIndex]
    ELSE [items |-> <<>>, nextIndex |-> i]

\* The while loop of parseFrontmatter over the lines of the block.
RECURSIVE parseLines(_, _, _)
parseLines(lines, i, meta) ==
    IF i > Len(lines) THEN meta
    ELSE applyTo([match |-> keyMatch(lines[i]), meta |-> meta], LAMBDA at :
             IF ~at.match.ok THEN parseLines(lines, i + 1, at.meta)
             ELSE IF at.match.raw = <<>> /\ i + 1 <= Len(lines) /\ isArrayLine(lines[i + 1])
             THEN applyTo(parseArrayItems(lines, i + 1), LAMBDA result :
                      parseLines(lines, result.nextIndex,
                                 metaSet(at.meta, at.match.key, VArr(result.items))))
             ELSE parseLines(lines, i + 1,
                             metaSet(at.meta, at.match.key, parseValue(at.match.raw))))

parseFrontmatter(fileContent) ==
    applyTo(trimStart(fileContent), LAMBDA trimmed :
        LET endIndex == indexOfDashes(trimmed, 3)
            yamlBlock == trim(SubSeq(trimmed, 4, endIndex))
            rest == sliceFrom(trimmed, endIndex + 3)
            content == IF Len(rest) > 0 /\ rest[1] = NL THEN Tail(rest) ELSE rest
        IN  IF indexOfDashes(trimmed, 0) # 0
            THEN [metadata |-> <<>>, content |-> fileContent]
            ELSE IF endIndex = 0 - 1
            THEN [metadata |-> <<>>, content |-> fileContent]
            ELSE IF yamlBlock = <<>>
            THEN [metadata |-> <<>>, content |-> trim(content)]
            ELSE [metadata |-> applyTo(splitLines(yamlBlock),
                                       LAMBDA lines : parseLines(lines, 1, <<>>)),
                  content |-> trim(content)])

\* String(value ?? "")
valueToString(value) ==
    IF value.t = "str" THEN value.v
    ELSE IF value.t = "num" THEN numToString(value.v)
    ELSE IF value.t = "bool" THEN (IF value.v THEN <<"true">> ELSE <<"false">>)
    ELSE <<>>

\* The lines one entry of the metadata contributes.
entryLines(entry) ==
    IF entry[2].t = "arr"
    THEN <<entry[1] \o <<":">>>>
         \o [i \in 1..Len(entry[2].v) |-> <<SP, SP, "-", SP>> \o entry[2].v[i]]
    ELSE <<entry[1] \o <<":", SP>> \o valueToString(entry[2])>>

RECURSIVE metaLines(_)
metaLines(meta) ==
    IF Len(meta) = 0 THEN <<>> ELSE entryLines(Head(meta)) \o metaLines(Tail(meta))

stringifyFrontmatter(meta, content) ==
    joinLines(<<<<"-", "-", "-">>>> \o metaLines(meta)
              \o <<<<"-", "-", "-">>, <<>>, content>>)

(***************************************************************************)
(* The codec on drawn inputs: encode, then decode.                         *)
(***************************************************************************)
KeySamples == {<<"name">>, <<"tags">>, <<"due">>, <<"status">>}

StringSamples ==
    { <<>>, <<"Sarah">>, <<"true">>, <<"4", "2">>, <<"1", "4", ":", "3", "0">>,
      <<SP, "Sarah">>, <<"a", "-", "-", "-", "b">> }

NumberSamples == {Norm(0, 0), Norm(0 - 7, 0), Norm(85, 2)}

ArraySamples == { <<>>, << <<"a">> >>, << <<"a">>, <<"b", SP>> >> }

ValueSamples ==
    {VStr(x) : x \in StringSamples} \cup {VNum(x) : x \in NumberSamples}
    \cup {VBool(TRUE)} \cup {VArr(x) : x \in ArraySamples}

BodySamples ==
    { <<>>, <<"Body">>, <<"#", "#", SP, "Notes", NL, NL, "Some", SP, "notes">>,
      <<NL, "Body">> }

\* The first MaxEntries keys: a map of n entries uses the first n.
KeyPool == <<<<"name">>, <<"tags">>, <<"due">>, <<"status">>>>

MetaSamples ==
    UNION { { [i \in 1..n |-> <<KeyPool[i], vs[i]>>] : vs \in [1..n -> ValueSamples] }
            : n \in 0..MaxEntries }

NoDoc == [metadata |-> <<>>, content |-> <<"pending">>]

CdInit ==
    /\ cdPc = "drawn"
    /\ cdMeta \in MetaSamples
    /\ cdBody \in BodySamples
    /\ cdText = <<>>
    /\ cdOut = NoDoc

CdIdle ==
    /\ cdPc = "off"
    /\ cdMeta = <<>>
    /\ cdBody = <<>>
    /\ cdText = <<>>
    /\ cdOut = NoDoc

Encode ==
    /\ cdPc = "drawn"
    /\ cdText' = stringifyFrontmatter(cdMeta, cdBody)
    /\ cdPc' = "encoded"
    /\ UNCHANGED <<cdMeta, cdBody, cdOut>>
    /\ UNCHANGED nonCdVars

Decode ==
    /\ cdPc = "encoded"
    /\ cdOut' = parseFrontmatter(cdText)
    /\ cdPc' = "decoded"
    /\ UNCHANGED <<cdMeta, cdBody, cdText>>
    /\ UNCHANGED nonCdVars

(***************************************************************************)
(* The reasoning service's responses.                                      *)
(***************************************************************************)
JNum(x) == [t |-> "num", v |-> x]
JStr(s) == [t |-> "str", v |-> s]
JObj(d) == [t |-> "obj", v |-> d]
JAbsent == [t |-> "absent"]

Categories == {"people", "projects", "ideas", "admin"}

Thoughts == {<<"call", SP, "Sarah">>, <<"pay", SP, "rent">>}

\* Confidence 0.0, 0.1, ..., 1.0
ConfValues == {Norm(k, 1) : k \in 0..10}

GoodReasoning == <<"mentions", SP, "a", SP, "person">>

\* extracted_data: a metadata map, as Object.entries lists it.
DataObjects ==
    { << <<<<"name">>, VStr(<<"Sarah">>)>>,
         <<<<"context">>, VStr(<<"Marketing">>)>> >>,
      << <<<<"due_date">>, VStr(<<"Friday">>)>> >> }

ValidPayloads ==
    [ category : {JStr(<<c>>) : c \in Categories},
      confidence : {JNum(x) : x \in ConfValues},
      reasoning : {JStr(GoodReasoning)},
      extracted_data : {JObj(d) : d \in DataObjects} ]

GoodPayload ==
    [ category |-> JStr(<<"people">>), confidence |-> JNum(Norm(9, 1)),
      reasoning |-> JStr(GoodReasoning),
      extracted_data |-> JObj(<< <<<<"name">>, VStr(<<"Sarah">>)>> >>) ]

\* Payloads that are JSON objects but break the schema in one place:
\* unknown category, confidence out of range or not a number, a missing
\* or ill-typed field.
BadPayloads ==
    { [GoodPayload EXCEPT !.category = JStr(<<"unknown_category">>)],
      [GoodPayload EXCEPT !.category = JAbsent],
      [GoodPayload EXCEPT !.category = JNum(Norm(1, 0))],
      [GoodPayload EXCEPT !.confidence = JNum(Norm(0 - 1, 1))],
      [GoodPayload EXCEPT !.confidence = JNum(Norm(11, 1))],
      [GoodPayload EXCEPT !.confidence = JStr(<<"high">>)],
      [GoodPayload EXCEPT !.confidence = JAbsent],
      [GoodPayload EXCEPT !.reasoning = JAbsent],
      [GoodPayload EXCEPT !.reasoning = JNum(Norm(0, 0))],
      [GoodPayload EXCEPT !.extracted_data = JAbsent],
      [GoodPayload EXCEPT !.extracted_data = JStr(<<"Sarah">>)] }

Payloads == ValidPayloads \cup BadPayloads

(***************************************************************************)
(* The text ClaudeService.call resolves with, as a sequence of tokens:    *)
(*   E  the literal "Error:" (the in-band error marker when it leads)     *)
(*   P  prose holding no brace and no fence                                *)
(*   F  a ``` fence                                                        *)
(*   L  a stray "{"        R  a stray "}"                                  *)
(*   J  the text of one JSON object {...}, whose parse is the payload p    *)
(***************************************************************************)
Tok(k) == [k |-> k]
TokJ(p) == [k |-> "J", p |-> p]

TokenKinds == {"E", "P", "F", "L", "R", "J"}

Shapes == UNION { [1..n -> TokenKinds] : n \in 0..MaxTokens }

Render(shape, p) ==
    [i \in 1..Len(shape) |-> IF shape[i] = "J" THEN TokJ(p) ELSE Tok(shape[i])]

Responses == { Render(s, p) : s \in Shapes, p \in Payloads }

(***************************************************************************)
(* CaptureService.classify                                                 *)
(***************************************************************************)
\* response.startsWith("Error:")
startsWithError(resp) == Len(resp) > 0 /\ resp[1].k = "E"

\* /```(?:json)?\s*\n?([\s\S]*?)\n?```/ group 1: the text between the first
\* fence and the next one; <<>> when there is no such pair.
codeBlockMatch(resp) ==
    LET fences == {i \in 1..Len(resp) : resp[i].k = "F"}
    IN  IF Cardinality(fences) >= 2
        THEN LET f1 == SetMin(fences)
                 f2 == SetMin(fences \ {f1})
             IN  SubSeq(resp, f1 + 1, f2 - 1)
        ELSE <<>>

\* /\{[\s\S]*\}/ : greedy, from the first "{" to the last "}" after it;
\* <<>> when no "{" is followed by a "}".
jsonMatch(resp) ==
    LET opens  == {i \in 1..Len(resp) : resp[i].k \in {"L", "J"}}
        closes == {i \in 1..Len(resp) : resp[i].k \in {"R", "J"}}
    IN  IF opens = {} THEN <<>>
        ELSE LET i0 == SetMin(opens)
                 after == {j \in closes : j > i0 \/ (j = i0 /\ resp[i0].k = "J")}
             IN  IF after = {} THEN <<>>
                 ELSE SubSeq(resp, i0, SetMax(after))

extractJson(resp) ==
    IF codeBlockMatch(resp) # <<>> THEN codeBlockMatch(resp)
    ELSE IF jsonMatch(resp) # <<>> THEN jsonMatch(resp)
    ELSE resp

\* JSON.parse(json) yields an object exactly when the text is one object.
jsonParses(json) == Len(json) = 1 /\ json[1].k = "J"

\* classificationSchema.parse accepts the object.
classificationSchema(p) ==
    /\ p.category.t = "str"
    /\ \E c \in Categories : p.category.v = <<c>>
    /\ p.confidence.t = "num"
    /\ ~NumLess(p.confidence.v, Norm(0, 0))
    /\ ~NumLess(Norm(1, 0), p.confidence.v)
    /\ p.reasoning.t = "str"
    /\ p.extracted_data.t = "obj"

\* "parse error - fallback classification"
FallbackReasoning ==
    <<"parse", SP, "error", SP, "-", SP, "fallback", SP, "classification">>

fallbackClassification(thought) ==
    [ category |-> "admin",
      confidence |-> Norm(0, 0),
      reasoning |-> FallbackReasoning,
      extracted_data |-> << <<<<"name">>, VStr(<<"unknown">>)>>,
                            <<<<"notes">>, VStr(thought)>> >> ]

\* The body of the try block: the classification, or a throw.
tryParse(resp) ==
    LET json == extractJson(resp)
    IN  IF jsonParses(json) /\ classificationSchema(json[1].p)
        THEN [ threw |-> FALSE,
               value |-> [ category |-> json[1].p.category.v[1],
                           confidence |-> json[1].p.confidence.v,
                           reasoning |-> json[1].p.reasoning.v,
                           extracted_data |-> json[1].p.extracted_data.v ] ]
        ELSE [ threw |-> TRUE ]

\* classify without its catch block: a failed parse is raised.
classifyNoCatch(thought, resp) ==
    IF startsWithError(resp)
    THEN [threw |-> FALSE, value |-> fallbackClassification(thought)]
    ELSE tryParse(resp)

\* classify keeping a recognisable category of a payload the schema rejects.
classifySalvage(thought, resp) ==
    IF startsWithError(resp)
    THEN [threw |-> FALSE, value |-> fallbackClassification(thought)]
    ELSE IF tryParse(resp).threw
         THEN LET json == extractJson(resp)
              IN  IF /\ jsonParses(json)
                     /\ json[1].p.category.t = "str"
                     /\ \E c \in Categories : json[1].p.category.v = <<c>>
                  THEN [threw |-> FALSE,
                        value |-> [fallbackClassification(thought) EXCEPT
                                      !.category = json[1].p.category.v[1]]]
                  ELSE [threw |-> FALSE, value |-> fallbackClassification(thought)]
         ELSE tryParse(resp)

\* The outcome of classify(thought) when the service answers resp.
classify(thought, resp) ==
    IF startsWithError(resp)
    THEN [threw |-> FALSE, value |-> fallbackClassification(thought)]
    ELSE IF tryParse(resp).threw
         THEN [threw |-> FALSE, value |-> fallbackClassification(thought)]
         ELSE tryParse(resp)

NoOutcome == [threw |-> FALSE, value |-> [pending |-> TRUE]]

ClsInit ==
    /\ clsPc = "call"
    /\ clsThought \in Thoughts
    /\ clsResp \in Responses
    /\ clsOut = NoOutcome

ClsIdle ==
    /\ clsPc = "off"
    /\ clsThought = <<>>
    /\ clsResp = <<>>
    /\ clsOut = NoOutcome

\* classify() runs to completion on the drawn response.
Classify ==
    /\ clsPc = "call"
    /\ clsOut' = classify(clsThought, clsResp)
    /\ clsPc' = "done"
    /\ UNCHANGED <<clsThought, clsResp>>
    /\ UNCHANGED nonClsVars


(***************************************************************************)
(* CaptureService.processCapture and capture                               *)
(***************************************************************************)
CATEGORY_DIRS(category) ==
    CASE category = "people" -> "People"
      [] category = "projects" -> "Projects"
      [] category = "ideas" -> "Ideas"
      [] category = "admin" -> "Admin"
      [] OTHER -> "Admin"

NeedsReviewDir == "_needs_review"

\* classification.confidence < this.confidenceThreshold
needsReviewAtOrBelow(classification, threshold) ==
    ~NumLess(threshold, classification.confidence)

needsReviewOf(classification, threshold) ==
    NumLess(classification.confidence, threshold)

targetDirOf(classification, needsReview) ==
    IF needsReview THEN NeedsReviewDir ELSE CATEGORY_DIRS(classification.category)

pad2(n) == <<DigitChars[(n \div 10) + 1], DigitChars[(n % 10) + 1]>>

\* toLowerCase on the letters the samples use
lowerChar(c) ==
    CASE c = "Sarah" -> "sarah"
      [] c = "O" -> "o"
      [] c = "Brien" -> "brien"
      [] OTHER -> c

\* .replace(/[^a-z0-9]+/g, "-") on a lower-cased string
RECURSIVE hyphenate(_)
hyphenate(s) ==
    IF Len(s) = 0 THEN <<>>
    ELSE IF IsWord(s[1]) THEN <<s[1]>> \o hyphenate(Tail(s))
    ELSE LET word == {i \in 1..Len(s) : IsWord(s[i])}
         IN  IF word = {} THEN <<"-">>
             ELSE <<"-">> \o hyphenate(sliceFrom(s, SetMin(word) - 1))

\* .replace(/^-+|-+$/g, "")
stripHyphens(s) ==
    LET keep == {i \in 1..Len(s) : s[i] # "-"}
    IN  IF keep = {} THEN <<>> ELSE SubSeq(s, SetMin(keep), SetMax(keep))

NameLimit == 40

\* generateFilename at clock second t: the sanitized name, the date stamp,
\* the time stamp of that second, and ".md".  A word of letters counts as
\* one character towards the 40 kept.
generateFilename(classification, t) ==
    LET data == classification.extracted_data
        name == IF <<"name">> \in metaKeys(data) /\ metaGet(data, <<"name">>).t # "none"
                THEN valueToString(metaGet(data, <<"name">>))
                ELSE <<"capture">>
        lowered == [i \in 1..Len(name) |-> lowerChar(name[i])]
        clean == stripHyphens(hyphenate(lowered))
        sanitized == SubSeq(clean, 1, IF Len(clean) < NameLimit THEN Len(clean)
                                      ELSE NameLimit)
    IN  sanitized
        \o <<"-", "2", "0", "2", "6", "0", "2", "0", "7", "-", "1", "4", "3", "0">>
        \o pad2(t) \o <<".", "md">>

\* formatTimestamp at clock second t
formatTimestamp(t) ==
    <<"2", "0", "2", "6", "-", "0", "2", "-", "0", "7", SP, "1", "4", ":", "3", "0", ":">>
    \o pad2(t)

\* flattenExtractedData: the entries that are not null or undefined
flattenExtractedData(data) == SelectSeq(data, LAMBDA entry : entry[2].t # "none")

RECURSIVE spread(_, _)
spread(meta, entries) ==
    IF Len(entries) = 0 THEN meta
    ELSE spread(metaSet(meta, Head(entries)[1], Head(entries)[2]), Tail(entries))

\* The frontmatter metadata of a capture written at clock second t.
captureMetadata(classification, t) ==
    spread(<< <<<<"category">>, VStr(<<classification.category>>)>>,
              <<<<"confidence">>, VNum(classification.confidence)>>,
              <<<<"created">>, VStr(formatTimestamp(t))>> >>,
           flattenExtractedData(classification.extracted_data))

\* if (data[key]): the value is there and truthy
truthy(data, key) ==
    /\ key \in metaKeys(data)
    /\ LET value == metaGet(data, key)
       IN  CASE value.t = "str" -> value.v # <<>>
             [] value.t = "num" -> value.v.m # 0
             [] value.t = "bool" -> value.v
             [] value.t = "arr" -> TRUE
             [] OTHER -> FALSE

\* "## Title\n\n" followed by the text
section(title, text) == <<"#", "#", SP>> \o title \o <<NL, NL>> \o text

optionalSection(data, key, title) ==
    IF truthy(data, key)
    THEN <<section(title, valueToString(metaGet(data, key)))>>
    ELSE <<>>

\* bodyParts.join("\n\n")
RECURSIVE joinParts(_)
joinParts(parts) ==
    IF Len(parts) = 0 THEN <<>>
    ELSE IF Len(parts) = 1 THEN parts[1]
    ELSE parts[1] \o <<NL, NL>> \o joinParts(Tail(parts))

captureBody(thought, classification) ==
    LET data == classification.extracted_data
    IN  joinParts(
            optionalSection(data, <<"context">>, <<"Context">>)
            \o optionalSection(data, <<"follow_ups">>, <<"Follow", SP, "Ups">>)
            \o optionalSection(data, <<"next_action">>, <<"Next", SP, "Action">>)
            \o optionalSection(data, <<"one_liner">>, <<"One", SP, "Liner">>)
            \o optionalSection(data, <<"notes">>, <<"Notes">>)
            \o <<section(<<"Original", SP, "Thought">>, thought)>>
            \o <<section(<<"Classification", SP, "Reasoning">>, classification.reasoning)>>)

\* The audit entry logToInbox appends.
inboxEntry(thought, classification, filename, userId, t) ==
    [ timestamp |-> formatTimestamp(t),
      user |-> IF userId.t = "none" THEN <<"unknown">> ELSE userId.v,
      category |-> classification.category,
      confidence |-> classification.confidence,
      file |-> filename,
      thought |-> thought ]


Users == {VStr(<<"1", "2", "3">>), VNone}

\* The service's answers a capture is run on: an error text, prose, every
\* valid object, every schema-breaking object, an object in a fenced block,
\* an object followed by prose, and an object whose extracted fields hold
\* a field named category.
CaptureResponses ==
    { <<Tok("E"), Tok("P")>>, <<Tok("P")>>, <<>> }
    \cup { <<TokJ(p)>> : p \in BadPayloads }
    \cup { <<TokJ(p)>> : p \in {q \in ValidPayloads :
                                    <<"name">> \in metaKeys(q.extracted_data.v)} }
    \cup { <<Tok("F"), TokJ(GoodPayload), Tok("F")>>,
           <<TokJ(GoodPayload), Tok("P"), Tok("R")>>,
           <<TokJ([GoodPayload EXCEPT !.extracted_data =
                      JObj(<< <<<<"name">>, VStr(<<"Sarah">>)>>,
                              <<<<"category">>, VStr(<<"work">>)>> >>)])>> }

NoCall ==
    [ pc |-> "idle", thought |-> <<>>, userId |-> VNone, resp |-> <<>>,
      classification |-> [pending |-> TRUE], needsReview |-> FALSE,
      targetDir |-> "", filename |-> <<>>, fileContent |-> <<>>,
      entry |-> [pending |-> TRUE] ]

NoReturn == [status |-> "pending"]

CapInit ==
    /\ capCfg \in [ confidenceThreshold : ConfValues,
                    gitEnabled : BOOLEAN,
                    gitAutoCommit : BOOLEAN ]
    /\ cap = NoCall
    /\ capRet = NoReturn
    /\ now = 0
    /\ store = {}
    /\ dirs = {}
    /\ auditLog = <<>>
    /\ commits = <<>>

CapIdle ==
    /\ capCfg = [confidenceThreshold |-> Norm(6, 1), gitEnabled |-> FALSE,
                 gitAutoCommit |-> FALSE]
    /\ cap = [NoCall EXCEPT !.pc = "off"]
    /\ capRet = NoReturn
    /\ now = 0
    /\ store = {}
    /\ dirs = {}
    /\ auditLog = <<>>
    /\ commits = <<>>

\* The wall clock advances while a capture awaits an fs call whose successor
\* reads it.
Tick ==
    /\ cap.pc \in {"mkdir", "write"}
    /\ now < MaxClock
    /\ now' = now + 1
    /\ UNCHANGED <<capCfg, cap, capRet, store, dirs, auditLog, commits>>
    /\ UNCHANGED nonCapVars

\* capture(thought, userId) is called: classify sends the prompt and awaits.
CaptureCall ==
    /\ cap.pc = "idle"
    /\ \E thought \in {<<"call", SP, "Sarah">>}, userId \in Users,
          resp \in CaptureResponses :
          cap' = [cap EXCEPT !.pc = "classify", !.thought = thought,
                             !.userId = userId, !.resp = resp]
    /\ UNCHANGED <<capCfg, capRet, now, store, dirs, auditLog, commits>>
    /\ UNCHANGED nonCapVars

\* The service answers: classify returns, processCapture computes the
\* routing and awaits mkdir.
ServiceReplies ==
    /\ cap.pc = "classify"
    /\ LET outcome == classify(cap.thought, cap.resp)
       IN  IF outcome.threw
           THEN /\ cap' = [cap EXCEPT !.pc = "done"]
                /\ capRet' = [status |-> "threw"]
           ELSE LET needsReview ==
                        needsReviewOf(outcome.value, capCfg.confidenceThreshold)
                IN  /\ cap' = [cap EXCEPT
                                  !.pc = "mkdir",
                                  !.classification = outcome.value,
                                  !.needsReview = needsReview,
                                  !.targetDir = targetDirOf(outcome.value, needsReview)]
                    /\ UNCHANGED capRet
    /\ UNCHANGED <<capCfg, now, store, dirs, auditLog, commits>>
    /\ UNCHANGED nonCapVars

\* What an fs call that rejects does to the capture: nothing catches it.
fsRejects == [status |-> "threw"]

\* mkdir(targetDir, {recursive: true}) resolves; the filename and the
\* document are built and writeFile is awaited.
MkdirOk ==
    /\ cap.pc = "mkdir"
    /\ dirs' = dirs \cup {cap.targetDir}
    /\ cap' = [cap EXCEPT
                  !.pc = "write",
                  !.filename = generateFilename(cap.classification, now),
                  !.fileContent =
                      stringifyFrontmatter(
                          captureMetadata(cap.classification, now),
                          captureBody(cap.thought, cap.classification))]
    /\ UNCHANGED <<capCfg, capRet, now, store, auditLog, commits>>
    /\ UNCHANGED nonCapVars

MkdirFails ==
    /\ cap.pc = "mkdir"
    /\ cap' = [cap EXCEPT !.pc = "done"]
    /\ capRet' = fsRejects
    /\ UNCHANGED <<capCfg, now, store, dirs, auditLog, commits>>
    /\ UNCHANGED nonCapVars

\* writeFile(filePath, fileContent) resolves: the file is created or
\* replaced; the audit entry is built and appendFile is awaited.
WriteOk ==
    /\ cap.pc = "write"
    /\ store' = {f \in store : ~(f.dir = cap.targetDir /\ f.name = cap.filename)}
                \cup {[dir |-> cap.targetDir, name |-> cap.filename,
                       content |-> cap.fileContent]}
    /\ cap' = [cap EXCEPT
                  !.pc = "log",
                  !.entry = inboxEntry(cap.thought, cap.classification, cap.filename,
                                       cap.userId, now)]
    /\ UNCHANGED <<capCfg, capRet, now, dirs, auditLog, commits>>
    /\ UNCHANGED nonCapVars

WriteFails ==
    /\ cap.pc = "write"
    /\ cap' = [cap EXCEPT !.pc = "done"]
    /\ capRet' = fsRejects
    /\ UNCHANGED <<capCfg, now, store, dirs, auditLog, commits>>
    /\ UNCHANGED nonCapVars

captureResult ==
    [ filePath |-> <<cap.targetDir, cap.filename>>,
      category |-> cap.classification.category,
      confidence |-> cap.classification.confidence,
      needsReview |-> cap.needsReview,
      filename |-> cap.filename ]

gitWanted == capCfg.gitEnabled /\ capCfg.gitAutoCommit

\* appendFile(logPath, entry) resolves; then the commit is awaited, or the
\* result returned.
AppendOk ==
    /\ cap.pc = "log"
    /\ auditLog' = Append(auditLog, cap.entry)
    /\ IF gitWanted
       THEN /\ cap' = [cap EXCEPT !.pc = "git"]
            /\ UNCHANGED capRet
       ELSE /\ cap' = [cap EXCEPT !.pc = "done"]
            /\ capRet' = [status |-> "returned", result |-> captureResult]
    /\ UNCHANGED <<capCfg, now, store, dirs, commits>>
    /\ UNCHANGED nonCapVars

AppendFails ==
    /\ cap.pc = "log"
    /\ cap' = [cap EXCEPT !.pc = "done"]
    /\ capRet' = fsRejects
    /\ UNCHANGED <<capCfg, now, store, dirs, auditLog, commits>>
    /\ UNCHANGED nonCapVars

\* gitCommit: git add and git commit succeed.
GitOk ==
    /\ cap.pc = "git"
    /\ commits' = Append(commits, <<cap.targetDir, cap.filename>>)
    /\ cap' = [cap EXCEPT !.pc = "done"]
    /\ capRet' = [status |-> "returned", result |-> captureResult]
    /\ UNCHANGED <<capCfg, now, store, dirs, auditLog>>
    /\ UNCHANGED nonCapVars

\* gitCommit: a git command fails; the catch logs it.
GitFails ==
    /\ cap.pc = "git"
    /\ cap' = [cap EXCEPT !.pc = "done"]
    /\ capRet' = [status |-> "returned", result |-> captureResult]
    /\ UNCHANGED <<capCfg, now, store, dirs, auditLog, commits>>
    /\ UNCHANGED nonCapVars

(***************************************************************************)
(* SchedulerService: daily and weekly digest timers                        *)
(***************************************************************************)
\* A day is DayLen clock units long; a time of day is a unit in 0..DayLen-1.
\* The clock counts units from a Sunday midnight.
JobIds == {"daily", "weekly"}
DaysPerWeek == 7
TimesOfDay == 0 .. (DayLen - 1)
Weekdays == 0 .. (DaysPerWeek - 1)
\* The weekdays drawn for the weekly job: the clock's first day, the day
\* after it and the day before it.
WeekdaySamples == {0, 1, DaysPerWeek - 1}

\* The start of the day the instant falls in: target.setHours(h, m, 0, 0)
\* applied to a copy of now gives startOfDay(now) + time.
startOfDay(instant) == (instant \div DayLen) * DayLen

\* Date.getDay() of the instant.
getDay(instant) == (instant \div DayLen) % DaysPerWeek

\* The delay to the next occurrence of a time of day, today's excluded when
\* it is the present instant (a defect, kept for comparison).
msUntilTimeInclusive(time, instant) ==
    LET target == startOfDay(instant) + time
    IN  IF target < instant THEN target + DayLen - instant
        ELSE target - instant

\* msUntilTime(time): the delay to the next occurrence of the time of day.
msUntilTime(time, instant) ==
    LET target == startOfDay(instant) + time
    IN  IF target <= instant THEN target + DayLen - instant
        ELSE target - instant

\* The weekly delay without the advance of a week (a defect, kept for
\* comparison).
msUntilDayTimeNoAdvance(day, time, instant) ==
    LET target == startOfDay(instant) + time
        diff == day - getDay(instant)
        wrapped == IF diff < 0 THEN diff + DaysPerWeek ELSE diff
    IN  target + wrapped * DayLen - instant

\* msUntilDayTime(day, time): the delay to the next occurrence of the
\* weekday at the time of day.
msUntilDayTime(day, time, instant) ==
    LET target == startOfDay(instant) + time
        diff == day - getDay(instant)
        wrapped == IF diff < 0 THEN diff + DaysPerWeek ELSE diff
        daysUntil == IF wrapped = 0 /\ target <= instant
                     THEN DaysPerWeek ELSE wrapped
    IN  target + daysUntil * DayLen - instant

\* The digest configurations: absent, or a daily and a weekly job, each
\* enabled or not.
NoDigest == [digest |-> FALSE]
DigestConfigs ==
    {NoDigest} \cup
    [ digest : {TRUE},
      daily : [enabled : BOOLEAN, time : TimesOfDay],
      weekly : [enabled : BOOLEAN, day : WeekdaySamples, time : TimesOfDay] ]

\* An entry of the jobs map that is not there.
NoJob == [name |-> "none"]

\* The scheduler's own state: the timers outstanding in the runtime, the jobs
\* map, the handle the next setTimeout returns, the error and warning lines
\* logged, and whether a timer callback's promise rejected unhandled.
NewScheduler ==
    [ timers |-> {},
      jobs |-> [j \in JobIds |-> NoJob],
      nextTimer |-> 1,
      schedLog |-> {},
      unhandled |-> FALSE ]

\* setTimeout(callback, delay) followed by jobs.set(job, {name, nextRun, timer}).
armTimer(S, job, delay, instant) ==
    [ S EXCEPT
        !.timers = @ \cup {[id |-> S.nextTimer, job |-> job, due |-> instant + delay]},
        !.jobs[job] = [name |-> job, nextRun |-> instant + delay, timer |-> S.nextTimer],
        !.nextTimer = @ + 1 ]

scheduleDaily(S, cfg, instant) ==
    armTimer(S, "daily", msUntilTime(cfg.daily.time, instant), instant)

scheduleWeekly(S, cfg, instant) ==
    armTimer(S, "weekly", msUntilDayTime(cfg.weekly.day, cfg.weekly.time, instant), instant)

reschedule(S, job, cfg, instant) ==
    IF job = "daily" THEN scheduleDaily(S, cfg, instant)
    ELSE scheduleWeekly(S, cfg, instant)

\* start(): arm every enabled job; timers armed earlier are left alone.
start(S, cfg, instant) ==
    IF ~cfg.digest THEN S
    ELSE LET s1 == IF cfg.daily.enabled THEN scheduleDaily(S, cfg, instant) ELSE S
         IN  IF cfg.weekly.enabled THEN scheduleWeekly(s1, cfg, instant) ELSE s1

\* The timers start() arms.
armedByStart(cfg) ==
    IF ~cfg.digest THEN 0
    ELSE (IF cfg.daily.enabled THEN 1 ELSE 0) + (IF cfg.weekly.enabled THEN 1 ELSE 0)

\* stop(): clearTimeout on the timer of every entry of the jobs map, then
\* jobs.clear(). Clearing a timer that has fired does nothing.
stop(S) ==
    LET held == {S.jobs[j].timer : j \in {k \in JobIds : S.jobs[k] # NoJob}}
    IN  [ S EXCEPT !.timers = {t \in @ : t.id \notin held},
                   !.jobs = [j \in JobIds |-> NoJob] ]

FailureLine(r) ==
    [ msg |-> IF r.job = "daily" THEN "Daily digest failed" ELSE "Weekly review failed",
      job |-> r.job, timer |-> r.timer ]

\* A timer callback that lets the rejection escape (a defect, kept for
\* comparison): nothing is logged and the job is not re-armed.
timerCallbackRethrows(S, r, ok, cfg, instant) ==
    IF ok THEN reschedule(S, r.job, cfg, instant)
    ELSE [S EXCEPT !.unhandled = TRUE]

\* The rest of a timer callback once triggerNow has settled, resolved (ok)
\* or rejected: the catch logs a rejection, and the job is scheduled again
\* either way.
timerCallback(S, r, ok, cfg, instant) ==
    LET logged == IF ok THEN S
                  ELSE [S EXCEPT !.schedLog = @ \cup {FailureLine(r)}]
    IN  reschedule(logged, r.job, cfg, instant)

\* What a firing leaves on record: the timer that fired and its next-run
\* time, the instant the callback finished, whether triggerNow rejected, and
\* the timers armed by the callback with their next-run times.
rearmRecord(S, T, r, ok, instant) ==
    [ job |-> r.job, fired |-> r.timer, prevRun |-> r.due, at |-> instant,
      failed |-> ~ok,
      armed |-> {[timer |-> t.id, nextRun |-> t.due] :
                    t \in {u \in T.timers : u.id >= S.nextTimer}} ]

\* triggerNow awaits the generation, then the delivery.
nextPhase(phase) == IF phase = "generate" THEN "deliver" ELSE "resolved"

\* The scheduler after the callback of firing r has run to its end.
callbackEnds(r, ok) == timerCallback(sched, r, ok, schedCfg, clk)

NoManual == [phase |-> "idle"]

SchedInit ==
    /\ schedCfg \in DigestConfigs
    /\ clk = 0
    /\ sched = NewScheduler
    /\ running = {}
    /\ manual = NoManual
    /\ started = FALSE
    /\ rearms = {}

SchedIdle ==
    /\ schedCfg = NoDigest
    /\ clk = 0
    /\ sched = NewScheduler
    /\ running = {}
    /\ manual = NoManual
    /\ started = FALSE
    /\ rearms = {}

\* The wall clock advances; the runtime runs a timer's callback when it is
\* due, before the clock reaches the next unit.
SchedTick ==
    /\ clk < MaxTime
    /\ \A t \in sched.timers : clk < t.due
    /\ clk' = clk + 1
    /\ UNCHANGED <<schedCfg, sched, running, manual, started, rearms>>
    /\ UNCHANGED nonSchedVars

Start ==
    /\ sched.nextTimer + armedByStart(schedCfg) <= MaxTimers + 1
    /\ sched' = start(sched, schedCfg, clk)
    /\ started' = TRUE
    /\ UNCHANGED <<schedCfg, clk, running, manual, rearms>>
    /\ UNCHANGED nonSchedVars

Stop ==
    /\ sched' = stop(sched)
    /\ started' = FALSE
    /\ UNCHANGED <<schedCfg, clk, running, manual, rearms>>
    /\ UNCHANGED nonSchedVars

\* The runtime runs the callback of a timer that is due: the callback calls
\* triggerNow, which starts the generation.
TimerFires ==
    \E t \in sched.timers :
        /\ t.due = clk
        /\ sched' = [sched EXCEPT !.timers = @ \ {t}]
        /\ running' = running \cup
              {[timer |-> t.id, job |-> t.job, due |-> t.due, phase |-> "generate"]}
        /\ UNCHANGED <<schedCfg, clk, manual, started, rearms>>
        /\ UNCHANGED nonSchedVars

\* The generation of a firing resolves and the delivery starts.
GenerationResolves ==
    \E r \in running :
        /\ r.phase = "generate"
        /\ running' = (running \ {r}) \cup {[r EXCEPT !.phase = nextPhase(r.phase)]}
        /\ UNCHANGED <<schedCfg, clk, sched, manual, started, rearms>>
        /\ UNCHANGED nonSchedVars

\* The delivery of a firing resolves: the callback continues after the
\* await and schedules the job again.
DeliveryResolves ==
    \E r \in running :
        /\ r.phase = "deliver"
        /\ sched.nextTimer <= MaxTimers
        /\ sched' = callbackEnds(r, TRUE)
        /\ running' = running \ {r}
        /\ rearms' = rearms \cup {rearmRecord(sched, sched', r, TRUE, clk)}
        /\ UNCHANGED <<schedCfg, clk, manual, started>>
        /\ UNCHANGED nonSchedVars

\* The generation or the delivery of a firing rejects: the callback
\* continues in its catch and schedules the job again.
FiringFails ==
    \E r \in running :
        /\ sched.nextTimer <= MaxTimers
        /\ sched' = callbackEnds(r, FALSE)
        /\ running' = running \ {r}
        /\ rearms' = rearms \cup {rearmRecord(sched, sched', r, FALSE, clk)}
        /\ UNCHANGED <<schedCfg, clk, manual, started>>
        /\ UNCHANGED nonSchedVars

\* A triggerNow that cancels the job's timer (a defect, kept for comparison).
triggerNowCancels(S, jobId) ==
    [S EXCEPT !.timers = {t \in @ : t.job # jobId}]

\* triggerNow(jobId), as far as the scheduler's own state goes: a known job
\* touches nothing, an unknown identifier is logged.
triggerNow(S, jobId) ==
    IF jobId \in JobIds THEN S
    ELSE [S EXCEPT !.schedLog = @ \cup
              {[msg |-> "Unknown job ID", job |-> jobId, timer |-> 0]}]

\* triggerNow(jobId) called by hand; one such call is followed, with the
\* generations and deliveries it has performed. An unknown identifier is
\* logged and the call resolves.
TriggerNow ==
    \E jobId \in JobIds \cup {"monthly"} :
        /\ manual = NoManual
        /\ manual' = [phase |-> IF jobId \in JobIds THEN "generate" ELSE "resolved",
                      job |-> jobId, generations |-> 0, deliveries |-> 0]
        /\ sched' = triggerNow(sched, jobId)
        /\ UNCHANGED <<schedCfg, clk, running, started, rearms>>
        /\ UNCHANGED nonSchedVars

\* The generation, then the delivery, of a manual run resolves.
ManualAdvances ==
    /\ manual.phase \in {"generate", "deliver"}
    /\ manual' = IF manual.phase = "generate"
                 THEN [manual EXCEPT !.phase = nextPhase(manual.phase), !.generations = @ + 1]
                 ELSE [manual EXCEPT !.phase = nextPhase(manual.phase), !.deliveries = @ + 1]
    /\ UNCHANGED <<schedCfg, clk, sched, running, started, rearms>>
    /\ UNCHANGED nonSchedVars

\* The generation or the delivery of a manual run rejects: the caller of
\* triggerNow receives the rejection.
ManualRejects ==
    /\ manual.phase \in {"generate", "deliver"}
    /\ manual' = [manual EXCEPT !.phase = "rejected"]
    /\ UNCHANGED <<schedCfg, clk, sched, running, started, rearms>>
    /\ UNCHANGED nonSchedVars

(***************************************************************************)
(* FixerService and the store under sequences of captures and fixes        *)
(***************************************************************************)
VALID_CATEGORIES == <<"people", "projects", "ideas", "admin">>

isValidCategory(c) == \E i \in 1 .. Len(VALID_CATEGORIES) : VALID_CATEGORIES[i] = c

\* The directories findFileByName searches, in its order.
SearchDirs == <<"People", "Projects", "Ideas", "Admin", "_needs_review">>

NoPath == [dir |-> "", name |-> <<>>]

\* findFileByName(filename): the first directory, in search order, that
\* lists the file; a directory that does not exist lists nothing.
findFileByName(S, filename) ==
    LET hits == {i \in 1 .. Len(SearchDirs) :
                    \E f \in S.store : f.dir = SearchDirs[i] /\ f.name = filename}
    IN  IF hits = {} THEN NoPath
        ELSE [dir |-> SearchDirs[SetMin(hits)], name |-> filename]

\* readFile(path)
readFile(S, path) ==
    (CHOOSE f \in S.store : f.dir = path.dir /\ f.name = path.name).content

\* A writeFile that empties the directory it writes to (a defect, kept for
\* comparison).
writeFileEmptiesDir(S, path, content) ==
    [S EXCEPT !.store = {f \in @ : f.dir # path.dir}
                        \cup {[dir |-> path.dir, name |-> path.name, content |-> content]}]

\* writeFile(path, content): the file is created or replaced.
writeFile(S, path, content) ==
    [S EXCEPT !.store = {f \in @ : ~(f.dir = path.dir /\ f.name = path.name)}
                        \cup {[dir |-> path.dir, name |-> path.name, content |-> content]}]

\* unlink(path)
unlink(S, path) ==
    [S EXCEPT !.store = {f \in @ : ~(f.dir = path.dir /\ f.name = path.name)}]

\* mkdir(dir, {recursive: true})
mkdir(S, dir) == [S EXCEPT !.dirs = @ \cup {dir}]

\* A log that is replaced by the new entry (a defect, kept for comparison).
appendFileTruncates(S, entry) == [S EXCEPT !.auditLog = <<entry>>]

\* appendFile(logPath, entry)
appendFile(S, entry) == [S EXCEPT !.auditLog = Append(@, entry)]

\* The entry logFix appends.
fixEntry(filename, oldCategory, newCategory, userId, t) ==
    [ timestamp |-> formatTimestamp(t),
      user |-> IF userId.t = "none" THEN <<"unknown">> ELSE userId.v,
      action |-> "Fix",
      file |-> filename,
      change |-> <<oldCategory, newCategory>> ]

\* String(parsed.metadata["category"] ?? "admin")
oldCategoryOf(metadata) ==
    IF <<"category">> \in metaKeys(metadata) /\ metaGet(metadata, <<"category">>).t # "none"
    THEN valueToString(metaGet(metadata, <<"category">>))
    ELSE <<"admin">>

\* The fs calls of a fix, in the order it makes them; the fault names the
\* call that rejects when the fix reaches it, "none" when none does.
FixFaults == {"none", "read", "mkdir", "write", "unlink", "log"}

\* What the try block ends with: the store it leaves, the call that
\* rejected ("none" when none did), and what the result reports.
moveEnds(state, call, oldCategory, newPath) ==
    [S |-> state, error |-> call, oldCategory |-> oldCategory, newPath |-> newPath]

\* A plan that writes the new category as the only field of the file (a
\* defect, kept for comparison).
movePlanCategoryOnly(S, category, filePath) ==
    applyTo(parseFrontmatter(readFile(S, filePath)), LAMBDA parsed :
        [ oldCategory |-> oldCategoryOf(parsed.metadata),
          newContent |-> stringifyFrontmatter(<< <<<<"category">>, VStr(<<category>>)>> >>,
                                              parsed.content),
          newPath |-> [dir |-> CATEGORY_DIRS(category), name |-> filePath.name] ])

\* The file read and parsed, with the content and the path of the move.
movePlan(S, category, filePath) ==
    applyTo(parseFrontmatter(readFile(S, filePath)), LAMBDA parsed :
        [ oldCategory |-> oldCategoryOf(parsed.metadata),
          newContent |-> stringifyFrontmatter(
                             metaSet(parsed.metadata, <<"category">>, VStr(<<category>>)),
                             parsed.content),
          newPath |-> [dir |-> CATEGORY_DIRS(category), name |-> filePath.name] ])

\* The try block of fixCapture: read and parse the file, set the category,
\* write the file under the new category's directory, remove the old file
\* when it is another path, log the fix. The first call that rejects ends
\* it, with what was done before left done.
tryMove(S, category, filePath, userId, t, fault) ==
    IF fault = "read" THEN moveEnds(S, "read", <<>>, NoPath)
    ELSE applyTo(movePlan(S, category, filePath), LAMBDA plan :
        IF fault = "mkdir" THEN moveEnds(S, "mkdir", plan.oldCategory, plan.newPath)
        ELSE applyTo(mkdir(S, plan.newPath.dir), LAMBDA made :
        IF fault = "write" THEN moveEnds(made, "write", plan.oldCategory, plan.newPath)
        ELSE applyTo(writeFile(made, plan.newPath, plan.newContent), LAMBDA written :
        IF fault = "unlink" /\ filePath # plan.newPath
        THEN moveEnds(written, "unlink", plan.oldCategory, plan.newPath)
        ELSE applyTo(IF filePath # plan.newPath THEN unlink(written, filePath) ELSE written,
                     LAMBDA removed :
        IF fault = "log" THEN moveEnds(removed, "log", plan.oldCategory, plan.newPath)
        ELSE moveEnds(appendFile(removed, fixEntry(filePath.name, plan.oldCategory,
                                                    category, userId, t)),
                      "none", plan.oldCategory, plan.newPath)))))

\* A FixResult; the message is kept as its kind and, for an error, the call
\* whose message it carries.
failure(newCategory, filename, oldPath, kind, call) ==
    [ success |-> FALSE, oldCategory |-> <<>>, newCategory |-> newCategory,
      filename |-> filename, oldPath |-> oldPath, newPath |-> NoPath,
      message |-> [kind |-> kind, call |-> call] ]

\* A fixCapture whose catch throws again (a defect, kept for comparison).
fixCaptureRethrows(S, newCategory, filename, userId, t, fault) ==
    applyTo(findFileByName(S, filename), LAMBDA filePath :
        IF ~isValidCategory(newCategory) \/ filePath = NoPath
        THEN [S |-> S, threw |-> FALSE,
              result |-> failure(newCategory, filename, NoPath, "not found", "none")]
        ELSE applyTo(tryMove(S, newCategory, filePath, userId, t, fault), LAMBDA moved :
                 [S |-> moved.S, threw |-> moved.error # "none",
                  result |-> failure(newCategory, filename, filePath, "error",
                                     moved.error)]))

\* A fixCapture that makes the new directory before it looks for the file
\* (a defect, kept for comparison).
fixCaptureMkdirFirst(S, newCategory, filename, userId, t, fault) ==
    [S |-> mkdir(S, CATEGORY_DIRS(newCategory)), threw |-> FALSE,
     result |-> failure(newCategory, filename, NoPath, "not found", "none")]

\* fixCapture(newCategory, filename, userId) at clock second t.
fixCapture(S, newCategory, filename, userId, t, fault) ==
    IF ~isValidCategory(newCategory)
    THEN [S |-> S, threw |-> FALSE,
          result |-> failure(newCategory, filename, NoPath, "invalid category", "none")]
    ELSE applyTo(findFileByName(S, filename), LAMBDA filePath :
        IF filePath = NoPath
        THEN [S |-> S, threw |-> FALSE,
              result |-> failure(newCategory, filename, NoPath, "not found", "none")]
        ELSE applyTo(tryMove(S, newCategory, filePath, userId, t, fault), LAMBDA moved :
            IF moved.error # "none"
            THEN [S |-> moved.S, threw |-> FALSE,
                  result |-> failure(newCategory, filename, filePath, "error", moved.error)]
            ELSE [S |-> moved.S, threw |-> FALSE,
                  result |-> [ success |-> TRUE, oldCategory |-> moved.oldCategory,
                               newCategory |-> newCategory, filename |-> filename,
                               oldPath |-> filePath, newPath |-> moved.newPath,
                               message |-> [kind |-> "moved", call |-> "none"] ]]))

\* The fs calls of a capture that can reject: a rejected mkdir or writeFile
\* leaves no file, a rejected appendFile leaves the file without its entry.
CaptureFaults == {"none", "mkdir", "append"}

\* capture(thought, userId) at clock second t, from the call to its end:
\* classify, mkdir, writeFile, logToInbox. The first call that rejects ends
\* it, with what was done before left done.
runCapture(S, threshold, thought, userId, resp, t, fault) ==
    applyTo(classify(thought, resp).value, LAMBDA classification :
    applyTo([dir |-> targetDirOf(classification,
                                 needsReviewOf(classification, threshold)),
             name |-> generateFilename(classification, t)], LAMBDA path :
        IF fault = "mkdir" THEN S
        ELSE applyTo(mkdir(S, path.dir), LAMBDA made :
        applyTo(writeFile(made, path,
                         stringifyFrontmatter(captureMetadata(classification, t),
                                              captureBody(thought, classification))),
                     LAMBDA written :
        IF fault = "append" THEN written
        ELSE appendFile(written,
                 inboxEntry(thought, classification, path.name, userId, t))))))

\* The answers of the service the store's captures are run on: an error
\* text, an object for a person, the same with a confidence under the
\* threshold, and one whose extracted fields hold a field named category.
StoreResponses ==
    { <<Tok("E"), Tok("P")>>,
      <<TokJ(GoodPayload)>>,
      <<TokJ([GoodPayload EXCEPT !.confidence = JNum(Norm(3, 1))])>>,
      <<TokJ([GoodPayload EXCEPT !.extracted_data =
                 JObj(<< <<<<"name">>, VStr(<<"Sarah">>)>>,
                         <<<<"category">>, VStr(<<"work">>)>> >>)])>> }

\* The categories a fix is asked for: two of the four and one that is none.
FixCategories == {"people", "admin", "work"}

MissingFile == <<"missing", ".", "md">>

NoFix == [called |-> FALSE]

FixIdle == fix = NoFix /\ ops = 0

StoreInit == CapIdle /\ fix = NoFix /\ ops = 0

\* The user whose captures and fixes the store sees.
StoreUsers == {VStr(<<"1", "2", "3">>)}

theStore == [store |-> store, dirs |-> dirs, auditLog |-> auditLog]

\* The wall clock advances between operations.
StoreTick ==
    /\ now < MaxClock
    /\ now' = now + 1
    /\ UNCHANGED <<capCfg, cap, capRet, store, dirs, auditLog, commits, fix, ops>>
    /\ UNCHANGED <<cdVars, clsVars, schedVars, occ, readVars, svcVars>>

\* One capture, from its call to its return or its rejection.
Capture ==
    \E thought \in Thoughts, userId \in StoreUsers, resp \in StoreResponses,
       fault \in CaptureFaults :
        /\ ops < MaxOps
        /\ ops' = ops + 1
        /\ LET after == runCapture(theStore, capCfg.confidenceThreshold, thought,
                                   userId, resp, now, fault)
           IN  /\ store' = after.store
               /\ dirs' = after.dirs
               /\ auditLog' = after.auditLog
        /\ UNCHANGED <<capCfg, cap, capRet, now, commits, fix>>
        /\ UNCHANGED <<cdVars, clsVars, schedVars, occ, readVars, svcVars>>

\* One fixCapture call, from its call to its return; fix records the call,
\* its place among the operations, and what it returned.
Fix ==
    \E newCategory \in FixCategories,
       filename \in {f.name : f \in store} \cup {MissingFile},
       userId \in StoreUsers, fault \in FixFaults :
        /\ ops < MaxOps
        /\ ops' = ops + 1
        /\ LET out == fixCapture(theStore, newCategory, filename, userId, now, fault)
           IN  /\ store' = out.S.store
               /\ dirs' = out.S.dirs
               /\ auditLog' = out.S.auditLog
               /\ fix' = [called |-> TRUE, at |-> ops + 1, newCategory |-> newCategory,
                          filename |-> filename, userId |-> userId, fault |-> fault,
                          threw |-> out.threw, result |-> out.result]
        /\ UNCHANGED <<capCfg, cap, capRet, now, commits>>
        /\ UNCHANGED <<cdVars, clsVars, schedVars, occ, readVars, svcVars>>

(***************************************************************************)
(* Next occurrence: msUntilTime and msUntilDayTime on their own            *)
(***************************************************************************)
DayNames == <<"sunday", "monday", "tuesday", "wednesday", "thursday", "friday", "saturday">>

\* dayMap[day.toLowerCase()] ?? 0, on lower-case names.
dayMap(name) ==
    IF \E i \in 1 .. Len(DayNames) : DayNames[i] = name
    THEN (CHOOSE i \in 1 .. Len(DayNames) : DayNames[i] = name) - 1
    ELSE 0

\* The instants drawn for a computation: two weeks of the clock.
OccInstants == 0 .. (2 * DaysPerWeek * DayLen)

NoOcc == [pc |-> "off"]

OccInit ==
    occ \in [ pc : {"ask"}, day : {DayNames[i] : i \in 1 .. Len(DayNames)} \cup {"someday"},
              time : TimesOfDay, instant : OccInstants, delay : {0} ]

OccIdle == occ = NoOcc

\* scheduleDaily asks msUntilTime for the delay at the instant.
AskDaily ==
    /\ occ.pc = "ask"
    /\ occ' = [occ EXCEPT !.pc = "daily", !.delay = msUntilTime(occ.time, occ.instant)]
    /\ UNCHANGED <<cdVars, clsVars, capVars, schedVars, fixVars, readVars, svcVars>>

\* scheduleWeekly asks msUntilDayTime for the delay at the instant.
AskWeekly ==
    /\ occ.pc = "ask"
    /\ occ' = [occ EXCEPT !.pc = "weekly",
                          !.delay = msUntilDayTime(dayMap(occ.day), occ.time, occ.instant)]
    /\ UNCHANGED <<cdVars, clsVars, capVars, schedVars, fixVars, readVars, svcVars>>

(***************************************************************************)
(* FixerService.findLastUserFile over the text of the audit log            *)
(***************************************************************************)
UserMark == "**User:** "
\* The file mark with its opening backquote, and the backquote character
\* (written ' here).
FileMark == "**File:** '"
BackTick == "'"

\* The text logToInbox and logFix append for an entry.
entryText(e) ==
    <<NL, "---", NL, NL, "**Timestamp:** ">> \o e.timestamp
    \o <<NL, UserMark>> \o e.user \o <<NL>>
    \o (IF "action" \in DOMAIN e
        THEN <<"**Action:** Fix", NL>>
        ELSE <<"**Category:** ", e.category, " (confidence: ">>
             \o numToString(e.confidence) \o <<")", NL>>)
    \o <<FileMark>> \o e.file \o <<BackTick, NL>>
    \o (IF "action" \in DOMAIN e
        THEN <<"**Change:** ", e.change[1], " -> ", e.change[2]>>
        ELSE <<"**Thought:** ">> \o e.thought)
    \o <<NL>>

\* The content of _inbox_log.md: the entries' texts in the order appended.
RECURSIVE logText(_)
logText(log) == IF Len(log) = 0 THEN <<>> ELSE entryText(Head(log)) \o logText(Tail(log))

NoMatch == [found |-> FALSE]

\* One regex.exec of
\*   \*\*User:\*\* ${userId}[\s\S]*?\*\*File:\*\* '([^']+)'
\* from index from: the leftmost place where the user mark and then the
\* userId's characters stand, the nearest file mark behind them that is
\* followed by one character or more and a closing tick, the characters
\* between as the group, and the index the match ends at.
regexExec(content, userId, from) ==
    LET closes(j) == {k \in (j + 2) .. Len(content) :
                         /\ content[k] = BackTick
                         /\ \A n \in (j + 1) .. (k - 1) : content[n] # BackTick}
        files(i) == {j \in (i + 1 + Len(userId)) .. Len(content) :
                        content[j] = FileMark /\ closes(j) # {}}
        starts == {i \in from .. Len(content) :
                      /\ content[i] = UserMark
                      /\ i + Len(userId) <= Len(content)
                      /\ SubSeq(content, i + 1, i + Len(userId)) = userId
                      /\ files(i) # {}}
    IN  IF starts = {} THEN NoMatch
        ELSE applyTo(SetMin(files(SetMin(starts))), LAMBDA j :
                 [found |-> TRUE,
                  group |-> SubSeq(content, j + 1, SetMin(closes(j)) - 1),
                  lastIndex |-> SetMin(closes(j)) + 1])

\* The while loop: the group of the last match.
RECURSIVE lastMatch(_, _, _, _)
lastMatch(content, userId, from, lastFilename) ==
    applyTo(regexExec(content, userId, from), LAMBDA match :
        IF ~match.found THEN lastFilename
        ELSE lastMatch(content, userId, match.lastIndex,
                       [found |-> TRUE, file |-> match.group]))

\* findLastUserFile(userId): null when the log cannot be read.
findLastUserFile(log, userId, readable) ==
    IF ~readable THEN NoMatch ELSE lastMatch(logText(log), userId, 1, NoMatch)

\* The users whose entries the logs hold: two whose identifiers begin
\* alike, and a capture made without one.
LookUsers == {VStr(<<"1", "2">>), VStr(<<"1", "2", "3">>), VNone}

\* The userIds looked up: the two users, one with no entry, and the empty
\* identifier the handler passes when the update names no sender.
LookIds == {<<"1", "2">>, <<"1", "2", "3">>, <<"7">>, <<>>}

LookClassification == classify(<<"call", SP, "Sarah">>, <<TokJ(GoodPayload)>>).value

\* The entries a log is made of: captures and fixes of two files.
LookEntries ==
    { inboxEntry(<<"call", SP, "Sarah">>, LookClassification,
                 generateFilename(LookClassification, t), u, t) :
          u \in LookUsers, t \in 0 .. 1 }
    \cup { fixEntry(generateFilename(LookClassification, t), <<"people">>, "admin", u, t) :
               u \in LookUsers, t \in 0 .. 1 }

NoLook == [pc |-> "off"]
NoScan == [pc |-> "off"]

ReadIdle == look = NoLook /\ scan = NoScan

LookInit ==
    /\ look \in [ pc : {"ask"},
                  log : UNION { [1 .. n -> LookEntries] : n \in 0 .. MaxLog },
                  userId : LookIds ]
    /\ scan = NoScan

\* findLastUserFile reads the log and answers.
Lookup ==
    /\ look.pc = "ask"
    /\ look' = [pc |-> "answered", log |-> look.log, userId |-> look.userId,
                out |-> findLastUserFile(look.log, look.userId, TRUE)]
    /\ UNCHANGED <<cdVars, clsVars, capVars, schedVars, occ, fixVars, scan, svcVars>>

\* The read of the log rejects (the file is not there yet).
LookupUnreadable ==
    /\ look.pc = "ask"
    /\ look' = [pc |-> "unreadable", log |-> look.log, userId |-> look.userId,
                out |-> findLastUserFile(look.log, look.userId, FALSE)]
    /\ UNCHANGED <<cdVars, clsVars, capVars, schedVars, occ, fixVars, scan, svcVars>>

(***************************************************************************)
(* ScannerService: scanAllDocuments, scanCategory, readMarkdownDir         *)
(***************************************************************************)
\* DIR_TO_CATEGORY[dirName] ?? "admin"
DIR_TO_CATEGORY(dirName) ==
    CASE dirName = "People" -> "people"
      [] dirName = "Projects" -> "projects"
      [] dirName = "Ideas" -> "ideas"
      [] dirName = "Admin" -> "admin"
      [] OTHER -> "admin"

\* [...Object.values(CATEGORY_DIRS), "_needs_review"]
targetDirs == {"People", "Projects", "Ideas", "Admin", NeedsReviewDir}

\* f.endsWith(".md")
endsWithMd(name) ==
    Len(name) >= 2 /\ name[Len(name) - 1] = "." /\ name[Len(name)] = "md"

\* filename.replace(/\.md$/, "")
withoutMd(name) == IF endsWithMd(name) THEN SubSeq(name, 1, Len(name) - 2) ELSE name

\* The ScannedDocument of a file that was read and parsed, without its
\* dates.
scannedDocument(f, category) ==
    applyTo(parseFrontmatter(f.content), LAMBDA parsed :
        [ filename |-> f.name,
          filepath |-> [dir |-> f.dir, name |-> f.name],
          category |-> IF <<"category">> \in metaKeys(parsed.metadata)
                          /\ metaGet(parsed.metadata, <<"category">>).t # "none"
                       THEN metaGet(parsed.metadata, <<"category">>)
                       ELSE VStr(<<category>>),
          content |-> parsed.content,
          frontmatter |-> parsed.metadata,
          title |-> IF <<"name">> \in metaKeys(parsed.metadata)
                       /\ metaGet(parsed.metadata, <<"name">>).t # "none"
                    THEN valueToString(metaGet(parsed.metadata, <<"name">>))
                    ELSE withoutMd(f.name) ])

\* The .md files readdir lists in a directory.
mdFiles(S, dirName) == {f \in S.files : f.dir = dirName /\ endsWithMd(f.name)}

\* readFile or stat of the file rejects.
fileFails(S, f) == \E x \in S.faults : x.dir = f.dir /\ x.name = f.name

\* A readMarkdownDir with no try around a file (a defect, kept for
\* comparison).
readMarkdownDirNoCatch(S, dirName, category) ==
    IF dirName \notin S.entries \/ dirName \in S.unlistable
    THEN [threw |-> FALSE, docs |-> {}]
    ELSE [threw |-> \E f \in mdFiles(S, dirName) : fileFails(S, f),
          docs |-> {scannedDocument(f, category) :
                        f \in {g \in mdFiles(S, dirName) : ~fileFails(S, g)}}]

\* readMarkdownDir(dirPath, category): nothing when the directory cannot be
\* listed; a file whose read, stat or parse throws is logged and left out.
readMarkdownDir(S, dirName, category) ==
    IF dirName \notin S.entries \/ dirName \in S.unlistable
    THEN [threw |-> FALSE, docs |-> {}]
    ELSE [threw |-> FALSE,
          docs |-> {scannedDocument(f, category) :
                        f \in {g \in mdFiles(S, dirName) : ~fileFails(S, g)}}]

\* scanAllDocuments(): nothing when the data directory cannot be listed;
\* the documents of the target directories it holds.
scanAllDocuments(S) ==
    IF ~S.root THEN [threw |-> FALSE, docs |-> {}]
    ELSE [threw |-> \E d \in S.entries \cap targetDirs :
                        readMarkdownDir(S, d, DIR_TO_CATEGORY(d)).threw,
          docs |-> UNION {readMarkdownDir(S, d, DIR_TO_CATEGORY(d)).docs :
                              d \in S.entries \cap targetDirs}]

\* scanCategory(category)
scanCategory(S, category) == readMarkdownDir(S, CATEGORY_DIRS(category), category)

\* A capture's document, and a text whose frontmatter is never closed.
ScanDocument ==
    stringifyFrontmatter(captureMetadata(LookClassification, 0),
                         captureBody(<<"call", SP, "Sarah">>, LookClassification))
ScanBrokenText == <<"-", "-", "-", NL, "name", ":", SP, "Bob">>

\* The files a data directory is made of: documents of two categories and
\* of the review directory, a file that is no markdown, and a document in
\* a directory the scanner does not look at.
ScanPool ==
    { [dir |-> "People", name |-> <<"sarah", ".", "md">>, content |-> ScanDocument],
      [dir |-> "People", name |-> <<"bob", ".", "md">>, content |-> ScanBrokenText],
      [dir |-> NeedsReviewDir, name |-> <<"sarah", ".", "md">>, content |-> ScanDocument],
      [dir |-> "Admin", name |-> <<"notes", ".", "txt">>, content |-> ScanBrokenText],
      [dir |-> "archive", name |-> <<"old", ".", "md">>, content |-> ScanDocument] }

\* The data directory is missing, or holds some of the files, possibly an
\* empty Ideas directory, at most MaxFaults files that cannot be read and
\* at most MaxFaults entries that cannot be listed.
ScanInit ==
    /\ look = NoLook
    /\ \E files \in SUBSET ScanPool, extra \in SUBSET {"Ideas"}, root \in BOOLEAN :
         \E faults \in SUBSET {[dir |-> f.dir, name |-> f.name, call |-> c] :
                                   f \in files, c \in {"readFile", "stat"}},
            unlistable \in SUBSET ({f.dir : f \in files} \cup extra) :
              /\ root \/ (files = {} /\ extra = {})
              /\ Cardinality(faults) <= MaxFaults
              /\ Cardinality(unlistable) <= MaxFaults
              /\ scan = [ pc |-> "ask", root |-> root, files |-> files,
                          entries |-> {f.dir : f \in files} \cup extra,
                          faults |-> faults, unlistable |-> unlistable ]

\* scanAllDocuments from its call to its end.
ScanAll ==
    /\ scan.pc = "ask"
    /\ LET out == scanAllDocuments(scan)
       IN  scan' = [pc |-> "all", root |-> scan.root, files |-> scan.files,
                    entries |-> scan.entries, faults |-> scan.faults,
                    unlistable |-> scan.unlistable,
                    scanned |-> IF scan.root THEN scan.entries \cap targetDirs ELSE {},
                    threw |-> out.threw, docs |-> out.docs]
    /\ UNCHANGED <<cdVars, clsVars, capVars, schedVars, occ, fixVars, look, svcVars>>

\* scanCategory(category) from its call to its end.
ScanCategory ==
    \E category \in {"people", "projects"} :
        /\ scan.pc = "ask"
        /\ LET out == scanCategory(scan, category)
           IN  scan' = [pc |-> "category", root |-> scan.root, files |-> scan.files,
                        entries |-> scan.entries, faults |-> scan.faults,
                        unlistable |-> scan.unlistable,
                        scanned |-> {CATEGORY_DIRS(category)} \cap scan.entries,
                        threw |-> out.threw, docs |-> out.docs]
        /\ UNCHANGED <<cdVars, clsVars, capVars, schedVars, occ, fixVars, look, svcVars>>

(***************************************************************************)
(* ScannerService.isActionable and SynthesisService                        *)
(***************************************************************************)
\* The text of a created field written at an instant, and new Date(text):
\* the instant of a text of that form, no valid date for any other text.
stampText(instant) == <<"T">> \o pad2(instant)

InvalidDate == [valid |-> FALSE]

newDate(text) ==
    IF \E i \in 0 .. 99 : text = stampText(i)
    THEN [valid |-> TRUE, at |-> CHOOSE i \in 0 .. 99 : text = stampText(i)]
    ELSE InvalidDate

\* created >= instant, false for an invalid date
notBefore(created, instant) == created.valid /\ created.at >= instant

\* createdStr ? new Date(createdStr) : new Date(fileStat.mtimeMs)
createdOf(fm, mtime) ==
    IF truthy(fm, <<"created">>)
    THEN newDate(valueToString(metaGet(fm, <<"created">>)))
    ELSE [valid |-> TRUE, at |-> mtime]

\* The ScannedDocument readMarkdownDir pushes for a file, with its created
\* date.
scannedAt(f, category) ==
    applyTo(scannedDocument(f, category), LAMBDA doc :
        [ filename |-> doc.filename, filepath |-> doc.filepath,
          category |-> doc.category, content |-> doc.content,
          frontmatter |-> doc.frontmatter, title |-> doc.title,
          created |-> createdOf(doc.frontmatter, f.mtime) ])

\* content.toLowerCase(), word by word: the words of the bodies that are
\* not already in lower case.
toLowerCase(word) ==
    CASE word = "URGENT" -> "urgent"
      [] word = "Today" -> "today"
      [] OTHER -> word

\* /\b(w1|w2|...)\b/.test(content.toLowerCase()): one of the words stands
\* in the text as a whole word.
testWords(content, words) == \E i \in 1 .. Len(content) : toLowerCase(content[i]) \in words

\* fm[key] === text
fieldIs(fm, key, text) == key \in metaKeys(fm) /\ metaGet(fm, key) = VStr(<<text>>)

\* An isActionable that tests the admin notes with the pattern of the
\* scores (a defect, kept for comparison).
isActionableFourWords(doc) ==
    CASE doc.category = VStr(<<"projects">>) ->
             fieldIs(doc.frontmatter, <<"status">>, "active")
             \/ fieldIs(doc.frontmatter, <<"status">>, "todo")
      [] doc.category = VStr(<<"people">>) -> truthy(doc.frontmatter, <<"follow_ups">>)
      [] doc.category = VStr(<<"admin">>) ->
             truthy(doc.frontmatter, <<"due_date">>)
             \/ testWords(doc.content, {"urgent", "asap", "deadline", "overdue"})
      [] OTHER -> FALSE

\* isActionable(doc)
isActionable(doc) ==
    CASE doc.category = VStr(<<"projects">>) ->
             fieldIs(doc.frontmatter, <<"status">>, "active")
             \/ fieldIs(doc.frontmatter, <<"status">>, "todo")
      [] doc.category = VStr(<<"people">>) -> truthy(doc.frontmatter, <<"follow_ups">>)
      [] doc.category = VStr(<<"admin">>) ->
             truthy(doc.frontmatter, <<"due_date">>)
             \/ testWords(doc.content,
                          {"urgent", "asap", "deadline", "overdue", "today", "tomorrow"})
      [] OTHER -> FALSE

\* getActionableItems(): the scanned documents, in scan order, filtered.
getActionableItems(allDocs) == SelectSeq(allDocs, isActionable)

\* The score prioritizeActions gives an item at the instant now.
scoreOf(item, instant) ==
    (IF truthy(item.frontmatter, <<"due_date">>) THEN 100 ELSE 0)
    + (IF notBefore(item.created, startOfDay(instant)) THEN 50
       ELSE IF notBefore(item.created, startOfDay(instant) - DayLen) THEN 30 ELSE 0)
    + (IF fieldIs(item.frontmatter, <<"status">>, "active") THEN 20 ELSE 0)
    + (IF testWords(item.content, {"urgent", "asap", "deadline", "overdue"}) THEN 40 ELSE 0)

\* Array.prototype.sort with (a, b) => b.score - a.score, which is stable:
\* each item goes behind the items before it that score no less.
insertByScore(sorted, item, instant) ==
    applyTo(Cardinality({i \in 1 .. Len(sorted) :
                             scoreOf(sorted[i], instant) >= scoreOf(item, instant)}),
            LAMBDA k : SubSeq(sorted, 1, k) \o <<item>> \o SubSeq(sorted, k + 1, Len(sorted)))

\* A sort that puts an item before the items that score the same (a
\* defect, kept for comparison).
RECURSIVE prioritizeActionsUnstable(_, _)
prioritizeActionsUnstable(items, instant) ==
    IF Len(items) = 0 THEN <<>>
    ELSE applyTo(prioritizeActionsUnstable(SubSeq(items, 1, Len(items) - 1), instant),
                 LAMBDA sorted :
                     applyTo(Cardinality({i \in 1 .. Len(sorted) :
                                 scoreOf(sorted[i], instant)
                                     > scoreOf(items[Len(items)], instant)}),
                             LAMBDA k : SubSeq(sorted, 1, k) \o <<items[Len(items)]>>
                                        \o SubSeq(sorted, k + 1, Len(sorted))))

\* prioritizeActions(items) at the instant now
RECURSIVE prioritizeActions(_, _)
prioritizeActions(items, instant) ==
    IF Len(items) = 0 THEN <<>>
    ELSE applyTo(prioritizeActions(SubSeq(items, 1, Len(items) - 1), instant),
                 LAMBDA sorted : insertByScore(sorted, items[Len(items)], instant))

NoLimit == 0 - 1

\* A getDailyActions that prioritizes after it truncates (a defect, kept
\* for comparison).
getDailyActionsCutFirst(allDocs, limit, instant) ==
    applyTo(getActionableItems(allDocs), LAMBDA actionable :
        prioritizeActions(
            SubSeq(actionable, 1,
                   IF (IF limit = NoLimit THEN 3 ELSE limit) < Len(actionable)
                   THEN (IF limit = NoLimit THEN 3 ELSE limit) ELSE Len(actionable)),
            instant))

\* getDailyActions(limit): sorted.slice(0, limit ?? 3)
getDailyActions(allDocs, limit, instant) ==
    applyTo(getActionableItems(allDocs), LAMBDA actionable :
        IF Len(actionable) = 0 THEN <<>>
        ELSE applyTo(IF limit = NoLimit THEN 3 ELSE limit, LAMBDA top :
                 SubSeq(prioritizeActions(actionable, instant), 1,
                        IF top < Len(actionable) THEN top ELSE Len(actionable))))

\* getStats(): the counts over the scanned documents; the documents of the
\* review directory are counted apart.
getStats(allDocs, reviewDocs, instant) ==
    IF Len(allDocs) = 0
    THEN [total |-> 0, week |-> 0, today |-> 0, byCategory |-> <<>>,
          needsReview |-> Len(reviewDocs), actionable |-> 0]
    ELSE [total |-> Len(allDocs),
          byCategory |-> [c \in {allDocs[i].category : i \in 1 .. Len(allDocs)} |->
                             Cardinality({i \in 1 .. Len(allDocs) : allDocs[i].category = c})],
          week |-> Cardinality({i \in 1 .. Len(allDocs) :
                       notBefore(allDocs[i].created, instant - DaysPerWeek * DayLen)}),
          today |-> Cardinality({i \in 1 .. Len(allDocs) :
                        notBefore(allDocs[i].created, startOfDay(instant))}),
          needsReview |-> Len(reviewDocs),
          actionable |-> 0]

\* The instant of the calls: the second part of a day in the second week.
SynNow == (DaysPerWeek + 1) * DayLen + 1

\* A stored file of the synthesis runs: its directory, name, the extra
\* fields of its frontmatter, its body and the instant it was created at.
SynFile(dir, name, extras, body, created) ==
    [ dir |-> dir, name |-> <<name, ".", "md">>, mtime |-> created,
      content |-> stringifyFrontmatter(
                      << <<<<"category">>, VStr(<<DIR_TO_CATEGORY(dir)>>)>>,
                         <<<<"created">>, VStr(stampText(created))>> >> \o extras,
                      body) ]

SynToday == SynNow
SynYesterday == startOfDay(SynNow) - 1
SynEarlier == startOfDay(SynNow) - DayLen - 1
SynLastWeek == SynNow - DaysPerWeek * DayLen - 1
SynTomorrow == startOfDay(SynNow) + DayLen

\* The files: an active project of today,
\* a person to call back, a person whose follow-up is empty, an admin
\* note due Friday written over a week ago, one whose due date is empty,
\* one that is urgent, one about today, an idea with a due date, and a todo
\* project dated tomorrow.
SynFiles ==
    << SynFile("Projects", "site", << <<<<"status">>, VStr(<<"active">>)>> >>,
               <<"redesign">>, SynToday),
       SynFile("People", "sarah",
               << <<<<"follow_ups">>, VStr(<<"call", SP, "back">>)>> >>,
               <<"met", SP, "Sarah">>, SynYesterday),
       SynFile("People", "bob", << <<<<"follow_ups">>, VStr(<<>>)>> >>,
               <<"met", SP, "Bob">>, SynToday),
       SynFile("Admin", "tax", << <<<<"due_date">>, VStr(<<"Friday">>)>> >>,
               <<"file", SP, "taxes">>, SynLastWeek),
       SynFile("Admin", "rent", << <<<<"due_date">>, VStr(<<>>)>> >>,
               <<"pay", SP, "rent">>, SynToday),
       SynFile("Admin", "visa", <<>>, <<"URGENT", SP, "visa">>, SynEarlier),
       SynFile("Admin", "milk", <<>>, <<"Today", SP, "milk">>, SynYesterday),
       SynFile("Ideas", "app", << <<<<"due_date">>, VStr(<<"Friday">>)>>,
                                  <<<<"status">>, VStr(<<"active">>)>> >>,
               <<"an", SP, "app">>, SynToday),
       SynFile("Projects", "trip", << <<<<"status">>, VStr(<<"todo">>)>> >>,
               <<"book">>, SynTomorrow) >>

\* The documents a scan makes of the files.
SynDocs == [i \in 1 .. Len(SynFiles) |-> scannedAt(SynFiles[i], DIR_TO_CATEGORY(SynFiles[i].dir))]

\* The scans: up to MaxDocs of the documents, each once, in any order.
SynScans ==
    { [i \in 1 .. Len(order) |-> SynDocs[order[i]]] :
          order \in { o \in UNION { [1 .. n -> 1 .. Len(SynFiles)] : n \in 0 .. MaxDocs } :
                          \A i, j \in 1 .. Len(o) : i # j => o[i] # o[j] } }

NoSyn == [pc |-> "off"]
NoQueue == [pc |-> "off"]
NoSession == [pc |-> "off"]
NoLock == [pc |-> "off"]
NoBot == [pc |-> "off"]

SvcIdle == syn = NoSyn /\ mq = NoQueue /\ sess = NoSession /\ lck = NoLock /\ bot = NoBot

SynInit == syn \in [pc : {"ready"}, docs : SynScans]

\* One call on the scanned documents: what was called, with what, and what
\* it returned; calls counts the calls made of the reasoning service.
synReturns(call, limit, out, calls) ==
    syn' = [pc |-> call, docs |-> syn.docs, limit |-> limit, out |-> out, calls |-> calls]

GetActionableItems ==
    /\ syn.pc = "ready"
    /\ synReturns("getActionableItems", NoLimit, getActionableItems(syn.docs), 0)
    /\ UNCHANGED <<cdVars, clsVars, capVars, schedVars, occ, fixVars, readVars>>
    /\ UNCHANGED <<mq, sess, lck, bot>>

PrioritizeActions ==
    /\ syn.pc = "ready"
    /\ synReturns("prioritizeActions", NoLimit, prioritizeActions(syn.docs, SynNow), 0)
    /\ UNCHANGED <<cdVars, clsVars, capVars, schedVars, occ, fixVars, readVars>>
    /\ UNCHANGED <<mq, sess, lck, bot>>

GetDailyActions ==
    \E limit \in {NoLimit} \cup (0 .. 2) :
        /\ syn.pc = "ready"
        /\ synReturns("getDailyActions", limit, getDailyActions(syn.docs, limit, SynNow), 0)
        /\ UNCHANGED <<cdVars, clsVars, capVars, schedVars, occ, fixVars, readVars>>
        /\ UNCHANGED <<mq, sess, lck, bot>>

GetStats ==
    /\ syn.pc = "ready"
    /\ synReturns("getStats", NoLimit,
                  getStats(syn.docs,
                           SelectSeq(syn.docs, LAMBDA d : d.filepath.dir = NeedsReviewDir),
                           SynNow), 0)
    /\ UNCHANGED <<cdVars, clsVars, capVars, schedVars, occ, fixVars, readVars>>
    /\ UNCHANGED <<mq, sess, lck, bot>>

(***************************************************************************)
(* DigestService                                                           *)
(***************************************************************************)
\* filterByDate(docs, days): d.created.getTime() >= Date.now() - days * 24h
filterByDate(docs, days, instant) ==
    SelectSeq(docs, LAMBDA d : notBefore(d.created, instant - days * DayLen))

\* getWeeklySummary(): the number of the captures of the last seven days
\* and the active projects among them.
getWeeklySummary(allDocs, instant) ==
    applyTo(filterByDate(allDocs, DaysPerWeek, instant), LAMBDA weekDocs :
        IF Len(weekDocs) = 0
        THEN [totalCaptures |-> 0, activeProjects |-> <<>>]
        ELSE [totalCaptures |-> Len(weekDocs),
              activeProjects |->
                  SelectSeq(weekDocs, LAMBDA d :
                      d.category = VStr(<<"projects">>)
                      /\ fieldIs(d.frontmatter, <<"status">>, "active"))])

AllCaughtUp == <<"No actionable items found for today. You're all caught up!">>
NoCapturesThisWeek == <<"No captures this week. Start capturing thoughts with /capture!">>
DailyFailed == <<"Failed to generate daily digest. Please try again later.">>
WeeklyFailed == <<"Failed to generate weekly review. Please try again later.">>

\* What claudeService.call(prompt) answers: an error text or a narration.
DigestResponses == {<<"Error:", SP, "timeout">>, <<"Here", SP, "is", SP, "your", SP, "digest">>}

responseIsError(response) == Len(response) > 0 /\ response[1] = "Error:"

\* A generateDailyDigest that asks the reasoning service before it looks at
\* the actions (a defect, kept for comparison).
generateDailyDigestAsksFirst(allDocs, limit, response, instant) ==
    IF Len(getDailyActions(allDocs, limit, instant)) = 0
    THEN [text |-> AllCaughtUp, calls |-> 1]
    ELSE IF responseIsError(response) THEN [text |-> DailyFailed, calls |-> 1]
    ELSE [text |-> response, calls |-> 1]

\* generateDailyDigest(): the text returned and the number of calls made of
\* the reasoning service, which answers response when called.
generateDailyDigest(allDocs, limit, response, instant) ==
    IF Len(getDailyActions(allDocs, limit, instant)) = 0
    THEN [text |-> AllCaughtUp, calls |-> 0]
    ELSE IF responseIsError(response) THEN [text |-> DailyFailed, calls |-> 1]
    ELSE [text |-> response, calls |-> 1]

\* generateWeeklyReview()
generateWeeklyReview(allDocs, response, instant) ==
    IF getWeeklySummary(allDocs, instant).totalCaptures = 0
    THEN [text |-> NoCapturesThisWeek, calls |-> 0]
    ELSE IF responseIsError(response) THEN [text |-> WeeklyFailed, calls |-> 1]
    ELSE [text |-> response, calls |-> 1]

\* config.secondbrain.digest.daily.limit: a positive integer, 3 by default.
DigestLimits == 1 .. 3

GenerateDailyDigest ==
    \E limit \in DigestLimits : \E response \in DigestResponses :
        /\ syn.pc = "ready"
        /\ synReturns("generateDailyDigest", limit,
                      generateDailyDigest(syn.docs, limit, response, SynNow).text,
                      generateDailyDigest(syn.docs, limit, response, SynNow).calls)
        /\ UNCHANGED <<cdVars, clsVars, capVars, schedVars, occ, fixVars, readVars>>
        /\ UNCHANGED <<mq, sess, lck, bot>>

GenerateWeeklyReview ==
    \E response \in DigestResponses :
        /\ syn.pc = "ready"
        /\ synReturns("generateWeeklyReview", NoLimit,
                      generateWeeklyReview(syn.docs, response, SynNow).text,
                      generateWeeklyReview(syn.docs, response, SynNow).calls)
        /\ UNCHANGED <<cdVars, clsVars, capVars, schedVars, occ, fixVars, readVars>>
        /\ UNCHANGED <<mq, sess, lck, bot>>

(***************************************************************************)
(* MessageQueue                                                            *)
(***************************************************************************)
\* A task of the chain is queued until its callback runs, running while its
\* function is awaited, and then done, or caught when the function threw
\* or rejected. A promise of the chain that rejected (rejected) passes its
\* rejection to the promises chained behind it, whose callbacks never run
\* (skipped).
Settled == {"done", "caught", "rejected", "skipped"}

QueueInit == mq = [pc |-> "on", tasks |-> <<>>, pending |-> 0, processing |-> FALSE]

\* size() and isProcessing()
size(q) == q.pending
isProcessing(q) == q.processing

\* A chain whose callbacks do not wait for the promise before them (a
\* defect, kept for comparison).
canStartUnchained(q, i) ==
    /\ q.tasks[i].state = "queued"
    /\ \A j \in 1 .. i - 1 : q.tasks[j].state # "queued"

\* this.chain.then(callback): the callback of task i runs once the promise
\* of the task before it has settled.
canStart(q, i) ==
    /\ q.tasks[i].state = "queued"
    /\ \A j \in 1 .. i - 1 : q.tasks[j].state \in Settled

\* A callback without the catch (a defect, kept for comparison).
afterTaskRethrows(throws) == IF throws THEN "rejected" ELSE "done"

\* try { await fn() } catch (error) { console.error(...) }: the callback's
\* promise resolves either way.
afterTask(throws) == IF throws THEN "caught" ELSE "done"

\* enqueue(fn), of a function that will throw or reject, or will not
Enqueue ==
    \E throws \in BOOLEAN :
        /\ mq.pc = "on" /\ Len(mq.tasks) < MaxTasks
        /\ mq' = IF ~mq.processing /\ mq.pending = 0
                 THEN [mq EXCEPT !.processing = TRUE,
                          !.tasks = Append(@, [wasIdle |-> TRUE, throws |-> throws,
                                               state |-> "queued"])]
                 ELSE [mq EXCEPT !.pending = @ + 1,
                          !.tasks = Append(@, [wasIdle |-> FALSE, throws |-> throws,
                                               state |-> "queued"])]
        /\ UNCHANGED <<cdVars, clsVars, capVars, schedVars, occ, fixVars, readVars>>
        /\ UNCHANGED <<syn, sess, lck, bot>>

\* The callback of a task begins: pending is decremented and fn is called;
\* behind a rejected promise the callback is passed over.
RunTask ==
    \E i \in 1 .. Len(mq.tasks) :
        /\ mq.pc = "on" /\ canStart(mq, i)
        /\ mq' = IF i > 1 /\ mq.tasks[i - 1].state \in {"rejected", "skipped"}
                 THEN [mq EXCEPT !.tasks[i].state = "skipped"]
                 ELSE [mq EXCEPT !.tasks[i].state = "running",
                          !.pending = IF mq.tasks[i].wasIdle THEN @ ELSE @ - 1]
        /\ UNCHANGED <<cdVars, clsVars, capVars, schedVars, occ, fixVars, readVars>>
        /\ UNCHANGED <<syn, sess, lck, bot>>

\* The function of a running task settles: the catch, then the finally.
SettleTask ==
    \E i \in 1 .. Len(mq.tasks) :
        /\ mq.pc = "on" /\ mq.tasks[i].state = "running"
        /\ mq' = [mq EXCEPT !.tasks[i].state = afterTask(mq.tasks[i].throws),
                     !.processing = IF mq.pending = 0 THEN FALSE ELSE @]
        /\ UNCHANGED <<cdVars, clsVars, capVars, schedVars, occ, fixVars, readVars>>
        /\ UNCHANGED <<syn, sess, lck, bot>>

(***************************************************************************)
(* SessionManager                                                          *)
(***************************************************************************)
NoSessionFile == [kind |-> "missing"]
CorruptSessionFile == [kind |-> "corrupt"]
NullId == "null"

\* JSON.stringify(state) as the session file holds it
sessionJson(state) == [kind |-> "json", state |-> state]

\* freshState() at an instant
freshState(instant) ==
    [sessionId |-> NullId, lastActivity |-> stampText(instant), messageCount |-> 0]

\* Date.parse(state.lastActivity) + ttlMs < Date.now(); never so when the
\* text is no date (NaN).
expired(state, ttl, instant) ==
    newDate(state.lastActivity).valid /\ newDate(state.lastActivity).at + ttl < instant

\* load(): the parsed state of the file; a fresh state when the file is
\* missing, is not JSON, or has expired.
load(file, ttl, instant) ==
    IF file.kind # "json" THEN freshState(instant)
    ELSE IF expired(file.state, ttl, instant) THEN freshState(instant)
    ELSE file.state

\* updateActivity(): the file save() leaves. An argument passed by a caller
\* is not read.
updateActivity(file, ttl, instant, given) ==
    applyTo(load(file, ttl, instant), LAMBDA state :
        sessionJson([sessionId |-> state.sessionId, lastActivity |-> stampText(instant),
                     messageCount |-> state.messageCount + 1]))

\* The identifiers callers pass, and the session files found at start-up.
SessionIds == {"s1", "s2"}

SessionInit ==
    sess \in [ pc : {"ready"}, ttl : 1 .. MaxTtl, now : {1}, given : {NullId},
               loaded : {freshState(0)},
               file : {NoSessionFile, CorruptSessionFile}
                      \cup {sessionJson([sessionId |-> id, lastActivity |-> stampText(0),
                                         messageCount |-> n]) :
                                id \in {NullId, "s1"}, n \in 0 .. 1} ]

UpdateActivity ==
    \E given \in SessionIds :
        /\ sess.pc \in {"ready", "updateActivity", "clear"}
        /\ sess.file.kind = "json" => sess.file.state.messageCount < MaxCount
        /\ sess' = [sess EXCEPT !.pc = "updateActivity", !.given = given,
                       !.loaded = load(sess.file, sess.ttl, sess.now),
                       !.file = updateActivity(sess.file, sess.ttl, sess.now, given)]
        /\ UNCHANGED <<cdVars, clsVars, capVars, schedVars, occ, fixVars, readVars>>
        /\ UNCHANGED <<syn, mq, lck, bot>>

\* clear(): save(freshState())
ClearSession ==
    /\ sess.pc \in {"ready", "updateActivity", "clear"}
    /\ sess' = [sess EXCEPT !.pc = "clear", !.given = NullId,
                   !.loaded = freshState(sess.now),
                   !.file = sessionJson(freshState(sess.now))]
    /\ UNCHANGED <<cdVars, clsVars, capVars, schedVars, occ, fixVars, readVars>>
    /\ UNCHANGED <<syn, mq, lck, bot>>

\* Time passes between the calls.
SessionTick ==
    /\ sess.pc \in {"ready", "updateActivity", "clear"} /\ sess.now < MaxTime + 1
    /\ sess' = [sess EXCEPT !.pc = "ready", !.now = @ + 1]
    /\ UNCHANGED <<cdVars, clsVars, capVars, schedVars, occ, fixVars, readVars>>
    /\ UNCHANGED <<syn, mq, lck, bot>>

(***************************************************************************)
(* LockManager                                                             *)
(***************************************************************************)
Pids == 1 .. MaxPid
NaN == 0 - 1

\* process.pid.toString() and Number.parseInt(text, 10)
pidToString(pid) == <<DigitChars[pid + 1]>>
parseIntOf(text) ==
    IF \E pid \in Pids : text = pidToString(pid)
    THEN CHOOSE pid \in Pids : text = pidToString(pid)
    ELSE NaN

\* A process table: each PID is of no process (dead), of a process of the
\* caller's user (own) or of a process of another user (foreign).
ProcessStates == {"dead", "own", "foreign"}

\* process.kill(pid, 0): returns when the process exists and the caller may
\* signal it, and throws otherwise: ESRCH for no such process, EPERM for a
\* process the caller may not signal, a TypeError for NaN.
kill0(procs, pid) ==
    IF pid = NaN THEN "TypeError"
    ELSE IF procs[pid] = "dead" THEN "ESRCH"
    ELSE IF procs[pid] = "foreign" THEN "EPERM"
    ELSE "ok"

NoLockFile == [exists |-> FALSE]
lockFileOf(text) == [exists |-> TRUE, text |-> text]

\* acquire(): what it returns and the lock file it leaves. A file that
\* cannot be read, or is empty, is no existing lock.
acquire(file, procs, self) ==
    IF file.exists /\ Len(file.text) > 0 /\ kill0(procs, parseIntOf(file.text)) = "ok"
    THEN [ok |-> FALSE, file |-> file]
    ELSE [ok |-> TRUE, file |-> lockFileOf(pidToString(self))]

\* isLocked()
isLocked(file, procs) == file.exists /\ kill0(procs, parseIntOf(file.text)) = "ok"

\* The lock files found, the processes about, and the caller's own PID.
LockInit ==
    /\ lck \in [ pc : {"ready"}, self : Pids, procs : [Pids -> ProcessStates],
                 before : {NoLockFile}, ok : {FALSE}, locked : {FALSE},
                 file : {NoLockFile, lockFileOf(<<>>), lockFileOf(<<"x">>)}
                        \cup {lockFileOf(pidToString(pid)) : pid \in Pids} ]
    /\ lck.procs[lck.self] = "own"

Acquire ==
    /\ lck.pc \in {"ready", "acquire", "release"}
    /\ lck' = [lck EXCEPT !.pc = "acquire", !.before = lck.file,
                  !.ok = acquire(lck.file, lck.procs, lck.self).ok,
                  !.file = acquire(lck.file, lck.procs, lck.self).file,
                  !.locked = isLocked(acquire(lck.file, lck.procs, lck.self).file, lck.procs)]
    /\ UNCHANGED <<cdVars, clsVars, capVars, schedVars, occ, fixVars, readVars>>
    /\ UNCHANGED <<syn, mq, sess, bot>>

\* release(): unlink(lockFile)
Release ==
    /\ lck.pc \in {"ready", "acquire", "release"}
    /\ lck' = [lck EXCEPT !.pc = "release", !.before = lck.file, !.ok = FALSE,
                  !.file = NoLockFile, !.locked = isLocked(NoLockFile, lck.procs)]
    /\ UNCHANGED <<cdVars, clsVars, capVars, schedVars, occ, fixVars, readVars>>
    /\ UNCHANGED <<syn, mq, sess, bot>>

(***************************************************************************)
(* The bot: auth middleware and handlers                                   *)
(***************************************************************************)
\* ctx.from?.id.toString(): the sender's id, undefined for an update that
\* has no sender.
Undefined == "undefined"
Senders == {"123456", "999", Undefined}

\* config.allowedUserId: the TELEGRAM_USER_ID of the environment, "" when
\* it is not set.
AllowedUserIds == {"", "123456"}

\* The updates: the commands with the text behind them (ctx.match), and
\* the messages.
Updates ==
    [from : Senders, type : {"command"}, name : {"new", "stats", "review", "digest"},
     match : {""}]
    \cup [from : Senders, type : {"command"}, name : {"capture", "fix"},
          match : {"", "people"}]
    \cup [from : Senders, type : {"text", "photo", "document", "voice"}, name : {""},
          match : {""}]

\* bot.use(async (ctx, next) => ...): whether next() is called.
authMiddleware(allowedUserId, userId) == ~(allowedUserId # "" /\ userId # allowedUserId)

\* The handler an update reaches behind the middleware: the SecondBrain
\* commands are registered only when enabled, and a command no handler is
\* registered for is a text message.
handlerOf(update, enabled) ==
    IF update.type = "command"
    THEN IF update.name = "new" \/ enabled THEN update.name ELSE "text"
    ELSE update.type

\* What a handler runs: the session manager, the capture, scanner, digest
\* and fixer services, the message queue, the reasoning service.
effectsOf(handler, match) ==
    CASE handler = "new" -> {"session"}
      [] handler = "capture" -> IF match = "" THEN {} ELSE {"capture", "reasoning"}
      [] handler = "stats" -> {"scan"}
      [] handler = "review" -> {"scan"}
      [] handler = "digest" -> {"scan", "reasoning"}
      [] handler = "fix" -> IF match = "" THEN {} ELSE {"fix"}
      [] handler = "text" -> {"queue", "reasoning", "session"}
      [] handler = "photo" -> {"queue", "reasoning"}
      [] handler = "document" -> {"queue", "reasoning"}
      [] OTHER -> {}

NoUpdate == [from |-> Undefined, type |-> "none", name |-> "", match |-> ""]

BotInit ==
    bot \in [ pc : {"polling"}, allowedUserId : AllowedUserIds, enabled : BOOLEAN,
              update : {NoUpdate}, ran : {"none"}, effects : {{}}, reply : {""} ]

\* One update goes through the middleware and, when next() is called, the
\* handler it reaches.
HandleUpdate ==
    \E update \in Updates :
        /\ bot.pc \in {"polling", "handled"}
        /\ bot' = IF authMiddleware(bot.allowedUserId, update.from)
                  THEN [bot EXCEPT !.pc = "handled", !.update = update,
                           !.ran = handlerOf(update, bot.enabled),
                           !.effects = effectsOf(handlerOf(update, bot.enabled),
                                                 update.match),
                           !.reply = "handler"]
                  ELSE [bot EXCEPT !.pc = "handled", !.update = update, !.ran = "none",
                           !.effects = {}, !.reply = "This bot is private."]
        /\ UNCHANGED <<cdVars, clsVars, capVars, schedVars, occ, fixVars, readVars>>
        /\ UNCHANGED <<syn, mq, sess, lck>>

(***************************************************************************)
(* LockManager.acquire, called by two processes at once                    *)
(*                                                                         *)
(* acquire() awaits readFile and, later, writeFile; between the two the    *)
(* other process may run. lck holds the lock file, the process table and   *)
(* each caller's place in acquire().                                       *)
(***************************************************************************)
\* The PIDs of the two instances being started; both are live processes of
\* the same user.
Callers == {1, 2}

NotRead == [exists |-> FALSE, pending |-> TRUE]

LockRaceInit ==
    /\ lck \in [ pc : {"race"},
                 procs : {t \in [Pids -> ProcessStates] : \A p \in Callers : t[p] = "own"},
                 file : {NoLockFile, lockFileOf(<<>>), lockFileOf(<<"x">>)}
                        \cup {lockFileOf(pidToString(pid)) : pid \in Pids \ Callers},
                 calls : {[p \in Callers |->
                             [at |-> "start", existingLock |-> NotRead, ok |-> FALSE]]} ]

\* readFile(lockFile) resolves for a caller, with the file as it is now (a
\* file that is not there resolves, through the catch, with null). The
\* continuation checks the process the text names: the call returns false
\* when process.kill(pid, 0) returns, and goes on to writeFile otherwise.
AcquireReads ==
    \E p \in Callers :
        /\ lck.pc = "race"
        /\ lck.calls[p].at = "start"
        /\ lck' = [lck EXCEPT !.calls[p] =
               IF /\ lck.file.exists /\ Len(lck.file.text) > 0
                  /\ kill0(lck.procs, parseIntOf(lck.file.text)) = "ok"
               THEN [at |-> "returned", existingLock |-> lck.file, ok |-> FALSE]
               ELSE [at |-> "writeFile", existingLock |-> lck.file, ok |-> FALSE]]
        /\ UNCHANGED <<cdVars, clsVars, capVars, schedVars, occ, fixVars, readVars>>
        /\ UNCHANGED <<syn, mq, sess, bot>>

\* writeFile(lockFile, process.pid.toString()) resolves for a caller, and
\* the call returns true.
AcquireWrites ==
    \E p \in Callers :
        /\ lck.pc = "race"
        /\ lck.calls[p].at = "writeFile"
        /\ lck' = [lck EXCEPT !.file = lockFileOf(pidToString(p)),
                              !.calls[p].at = "returned",
                              !.calls[p].ok = TRUE]
        /\ UNCHANGED <<cdVars, clsVars, capVars, schedVars, occ, fixVars, readVars>>
        /\ UNCHANGED <<syn, mq, sess, bot>>

(***************************************************************************)
(* SessionManager.updateActivity and clear, overlapping                    *)
(*                                                                         *)
(* The text handler's queued task awaits updateActivity(); the /new        *)
(* handler awaits clear() outside the queue, so the two may overlap at     *)
(* each await: readFile, writeFile of the temporary file, rename. sess     *)
(* holds the session file, the temporary file both calls write, and each   *)
(* call's place.                                                           *)
(***************************************************************************)
SessionRaceInit ==
    sess \in [ pc : {"race"}, ttl : 1 .. MaxTtl, now : {1},
               file : {NoSessionFile, CorruptSessionFile}
                      \cup {sessionJson([sessionId |-> id, lastActivity |-> stampText(0),
                                         messageCount |-> n]) :
                                id \in {NullId, "s1"}, n \in 0 .. MaxCount - 1},
               tmp : {NoSessionFile},
               update : {[at |-> "load", state |-> freshState(0)]},
               clear : {[at |-> "writeFile"]} ]

\* updateActivity: load() resolves; the state is stamped and counted.
UpdateLoads ==
    /\ sess.pc = "race"
    /\ sess.update.at = "load"
    /\ sess' = [sess EXCEPT !.update =
           [at |-> "writeFile",
            state |-> [load(sess.file, sess.ttl, sess.now) EXCEPT
                          !.lastActivity = stampText(sess.now),
                          !.messageCount = @ + 1]]]
    /\ UNCHANGED <<cdVars, clsVars, capVars, schedVars, occ, fixVars, readVars>>
    /\ UNCHANGED <<syn, mq, lck, bot>>

\* updateActivity: save() writes the temporary file.
UpdateWritesTmp ==
    /\ sess.pc = "race"
    /\ sess.update.at = "writeFile"
    /\ sess' = [sess EXCEPT !.tmp = sessionJson(sess.update.state),
                            !.update.at = "rename"]
    /\ UNCHANGED <<cdVars, clsVars, capVars, schedVars, occ, fixVars, readVars>>
    /\ UNCHANGED <<syn, mq, lck, bot>>

\* rename(tmpFile, sessionFile): the session file becomes the temporary
\* file, which is then no more; ENOENT when there is no temporary file.
renameTmp(s) ==
    IF s.tmp = NoSessionFile THEN [file |-> s.file, tmp |-> s.tmp, at |-> "threw"]
    ELSE [file |-> s.tmp, tmp |-> NoSessionFile, at |-> "returned"]

\* updateActivity: save() renames, and the call ends.
UpdateRenames ==
    /\ sess.pc = "race"
    /\ sess.update.at = "rename"
    /\ sess' = [sess EXCEPT !.file = renameTmp(sess).file, !.tmp = renameTmp(sess).tmp,
                            !.update.at = renameTmp(sess).at]
    /\ UNCHANGED <<cdVars, clsVars, capVars, schedVars, occ, fixVars, readVars>>
    /\ UNCHANGED <<syn, mq, lck, bot>>

\* clear: save(freshState()) writes the temporary file.
ClearWritesTmp ==
    /\ sess.pc = "race"
    /\ sess.clear.at = "writeFile"
    /\ sess' = [sess EXCEPT !.tmp = sessionJson(freshState(sess.now)),
                            !.clear.at = "rename"]
    /\ UNCHANGED <<cdVars, clsVars, capVars, schedVars, occ, fixVars, readVars>>
    /\ UNCHANGED <<syn, mq, lck, bot>>

\* clear: save() renames, and the call ends.
ClearRenames ==
    /\ sess.pc = "race"
    /\ sess.clear.at = "rename"
    /\ sess' = [sess EXCEPT !.file = renameTmp(sess).file, !.tmp = renameTmp(sess).tmp,
                            !.clear.at = renameTmp(sess).at]
    /\ UNCHANGED <<cdVars, clsVars, capVars, schedVars, occ, fixVars, readVars>>
    /\ UNCHANGED <<syn, mq, lck, bot>>

(***************************************************************************)
(* scanAllDocuments during a fixCapture                                    *)
(*                                                                         *)
(* A scan (of a digest the scheduler's timer fires, or of a command) and   *)
(* a fix run in one event loop and yield at each await. The scan lists the *)
(* data directory and then reads its target directories one after the     *)
(* other; the fix finds and reads the file, makes the new directory,       *)
(* writes the new file, removes the old one and logs. scan and fix hold    *)
(* each call's place; the store is the one of the capture variables.       *)
(***************************************************************************)
EmptyStore == [store |-> {}, dirs |-> {}, auditLog |-> <<>>]

\* The store as a scan sees it: every directory listable, every file
\* readable.
scannable(S) ==
    [root |-> TRUE, files |-> S.store, entries |-> S.dirs, faults |-> {}, unlistable |-> {}]

\* The stores a scan and a fix meet on: one captured document, in its
\* category's directory or in the review directory, and directories made
\* by earlier captures.
ScanRaceStores ==
    { [runCapture(EmptyStore, Norm(6, 1), <<"call", SP, "Sarah">>, VStr(<<"1", "2", "3">>),
                  resp, 0, "none") EXCEPT !.dirs = @ \cup extra] :
        resp \in { <<TokJ(GoodPayload)>>,
                   <<TokJ([GoodPayload EXCEPT !.confidence = JNum(Norm(3, 1))])>> },
        extra \in SUBSET {"Admin", "Projects"} }

ScanRaceInit ==
    /\ capCfg = [confidenceThreshold |-> Norm(6, 1), gitEnabled |-> FALSE,
                 gitAutoCommit |-> FALSE]
    /\ cap = [NoCall EXCEPT !.pc = "off"]
    /\ capRet = NoReturn
    /\ now = 0
    /\ commits = <<>>
    /\ ops = 0
    /\ look = NoLook
    /\ scan = [pc |-> "race", at |-> "readdir", entries |-> {}, docs |-> {}]
    /\ \E S \in ScanRaceStores, category \in {"people", "projects", "admin"} :
         /\ store = S.store
         /\ dirs = S.dirs
         /\ auditLog = S.auditLog
         /\ fix = [called |-> TRUE, at |-> "find", newCategory |-> category,
                   filename |-> (CHOOSE f \in S.store : TRUE).name,
                   filePath |-> NoPath, newPath |-> NoPath, newContent |-> <<>>,
                   oldCategory |-> <<>>]

\* scanAllDocuments: readdir(dataDir) resolves; the target directories
\* among its entries are the ones to read.
ScanListsRoot ==
    /\ scan.pc = "race" /\ scan.at = "readdir"
    /\ scan' = [scan EXCEPT !.at = "dirs", !.entries = dirs \cap targetDirs]
    /\ UNCHANGED <<cdVars, clsVars, capVars, schedVars, occ, fixVars, look, svcVars>>

\* scanAllDocuments: readMarkdownDir of the next directory resolves. The
\* order of the directories is the order readdir listed them in, which is
\* the file system's.
ScanReadsDir ==
    \E d \in scan.entries :
        /\ scan.pc = "race" /\ scan.at = "dirs"
        /\ scan' = [scan EXCEPT
               !.entries = @ \ {d},
               !.docs = @ \cup readMarkdownDir(scannable(theStore), d, DIR_TO_CATEGORY(d)).docs]
        /\ UNCHANGED <<cdVars, clsVars, capVars, schedVars, occ, fixVars, look, svcVars>>

\* scanAllDocuments returns what it read.
ScanReturns ==
    /\ scan.pc = "race" /\ scan.at = "dirs" /\ scan.entries = {}
    /\ scan' = [scan EXCEPT !.at = "returned"]
    /\ UNCHANGED <<cdVars, clsVars, capVars, schedVars, occ, fixVars, look, svcVars>>

\* fixCapture: the file is found, read and relabelled, and mkdir of the new
\* directory resolves.
FixMakesDir ==
    /\ scan.pc = "race" /\ fix.at = "find"
    /\ LET filePath == findFileByName(theStore, fix.filename)
           plan == movePlan(theStore, fix.newCategory, filePath)
       IN  /\ fix' = [fix EXCEPT !.at = "writeFile", !.filePath = filePath,
                                 !.newPath = plan.newPath,
                                 !.newContent = plan.newContent,
                                 !.oldCategory = plan.oldCategory]
           /\ dirs' = mkdir(theStore, plan.newPath.dir).dirs
    /\ UNCHANGED <<capCfg, cap, capRet, now, store, auditLog, commits, ops>>
    /\ UNCHANGED <<cdVars, clsVars, schedVars, occ, readVars, svcVars>>

\* fixCapture: writeFile(newPath, newContent) resolves.
FixWritesFile ==
    /\ scan.pc = "race" /\ fix.at = "writeFile"
    /\ store' = writeFile(theStore, fix.newPath, fix.newContent).store
    /\ fix' = [fix EXCEPT !.at = IF fix.filePath # fix.newPath THEN "unlink" ELSE "logFix"]
    /\ UNCHANGED <<capCfg, cap, capRet, now, dirs, auditLog, commits, ops>>
    /\ UNCHANGED <<cdVars, clsVars, schedVars, occ, readVars, svcVars>>

\* fixCapture: unlink(filePath) resolves.
FixUnlinksFile ==
    /\ scan.pc = "race" /\ fix.at = "unlink"
    /\ store' = unlink(theStore, fix.filePath).store
    /\ fix' = [fix EXCEPT !.at = "logFix"]
    /\ UNCHANGED <<capCfg, cap, capRet, now, dirs, auditLog, commits, ops>>
    /\ UNCHANGED <<cdVars, clsVars, schedVars, occ, readVars, svcVars>>

\* fixCapture: logFix appends its entry, and the call returns.
FixLogs ==
    /\ scan.pc = "race" /\ fix.at = "logFix"
    /\ auditLog' = appendFile(theStore, fixEntry(fix.filename, fix.oldCategory,
                                                 fix.newCategory,
                                                 VStr(<<"1", "2", "3">>), now)).auditLog
    /\ fix' = [fix EXCEPT !.at = "returned"]
    /\ UNCHANGED <<capCfg, cap, capRet, now, store, dirs, commits, ops>>
    /\ UNCHANGED <<cdVars, clsVars, schedVars, occ, readVars, svcVars>>

(***************************************************************************)
(* getStats while the store changes                                        *)
(*                                                                         *)
(* getStats awaits scanAllDocuments and then getNeedsReview; a capture or  *)
(* a fix of another handler may run between the two. syn holds the call's  *)
(* place, the documents of the first scan and the result.                  *)
(***************************************************************************)
\* The files found in the store when getStats is called: a person of over
\* a week ago, a note under review of yesterday, an admin note of today.
StatsPool ==
    { [dir |-> f.dir, name |-> f.name, content |-> f.content] :
        f \in { SynFile("People", "sarah", <<>>, <<"met", SP, "Sarah">>, SynLastWeek),
                SynFile(NeedsReviewDir, "memo", <<>>, <<"a", SP, "memo">>, SynYesterday),
                SynFile("Admin", "visa", <<>>, <<"URGENT", SP, "visa">>, SynToday) } }

\* A set of documents as the list a scan pushes them on.
RECURSIVE listOf(_)
listOf(S) ==
    IF S = {} THEN <<>>
    ELSE applyTo(CHOOSE x \in S : TRUE, LAMBDA x : <<x>> \o listOf(S \ {x}))

\* The documents readMarkdownDir makes of the .md files of the directories,
\* with their dates. The store keeps no modification times; a file's is
\* read only when its metadata holds no created field.
scanStore(S, dirNames) ==
    listOf({ scannedAt([dir |-> f.dir, name |-> f.name, content |-> f.content,
                        mtime |-> SynNow], DIR_TO_CATEGORY(f.dir)) :
               f \in {g \in S.store : /\ g.dir \in dirNames \cap S.dirs
                                       /\ endsWithMd(g.name)} })

NoStats == [pending |-> TRUE]

StatsRaceInit ==
    /\ capCfg = [confidenceThreshold |-> Norm(6, 1), gitEnabled |-> FALSE,
                 gitAutoCommit |-> FALSE]
    /\ cap = [NoCall EXCEPT !.pc = "off"]
    /\ capRet = NoReturn
    /\ now = 0
    /\ commits = <<>>
    /\ store \in SUBSET StatsPool
    /\ dirs = {f.dir : f \in store}
    /\ auditLog = <<>>
    /\ fix = NoFix
    /\ ops = 0
    /\ syn = [pc |-> "race", at |-> "scanAllDocuments", allDocs |-> <<>>, out |-> NoStats]

\* getStats: scanAllDocuments() resolves.
StatsScansAll ==
    /\ syn.pc = "race" /\ syn.at = "scanAllDocuments"
    /\ syn' = [syn EXCEPT !.at = "getNeedsReview",
                          !.allDocs = scanStore(theStore, targetDirs)]
    /\ UNCHANGED <<cdVars, clsVars, capVars, schedVars, occ, fixVars, readVars>>
    /\ UNCHANGED <<mq, sess, lck, bot>>

\* A capture of another handler runs between the two scans.
CaptureBetweenScans ==
    \E resp \in { <<TokJ(GoodPayload)>>,
                  <<TokJ([GoodPayload EXCEPT !.confidence = JNum(Norm(3, 1))])>> } :
        /\ syn.pc = "race" /\ syn.at = "getNeedsReview"
        /\ ops < MaxOps
        /\ ops' = ops + 1
        /\ LET after == runCapture(theStore, capCfg.confidenceThreshold,
                                   <<"call", SP, "Sarah">>, VStr(<<"1", "2", "3">>),
                                   resp, now, "none")
           IN  /\ store' = after.store
               /\ dirs' = after.dirs
               /\ auditLog' = after.auditLog
        /\ UNCHANGED <<capCfg, cap, capRet, now, commits, fix>>
        /\ UNCHANGED <<cdVars, clsVars, schedVars, occ, readVars, svcVars>>

\* A fix of another handler runs between the two scans.
FixBetweenScans ==
    \E newCategory \in {"people", "admin"}, filename \in {f.name : f \in store} :
        /\ syn.pc = "race" /\ syn.at = "getNeedsReview"
        /\ ops < MaxOps
        /\ ops' = ops + 1
        /\ LET out == fixCapture(theStore, newCategory, filename,
                                 VStr(<<"1", "2", "3">>), now, "none")
           IN  /\ store' = out.S.store
               /\ dirs' = out.S.dirs
               /\ auditLog' = out.S.auditLog
        /\ UNCHANGED <<capCfg, cap, capRet, now, commits, fix>>
        /\ UNCHANGED <<cdVars, clsVars, schedVars, occ, readVars, svcVars>>

\* getStats: getNeedsReview() resolves, and the statistics are computed
\* and returned.
StatsScansReview ==
    /\ syn.pc = "race" /\ syn.at = "getNeedsReview"
    /\ syn' = [syn EXCEPT !.at = "returned",
                          !.out = getStats(syn.allDocs,
                                           scanStore(theStore, {NeedsReviewDir}), SynNow)]
    /\ UNCHANGED <<cdVars, clsVars, capVars, schedVars, occ, fixVars, readVars>>
    /\ UNCHANGED <<mq, sess, lck, bot>>

(***************************************************************************)
(* Two captures at once                                                    *)
(*                                                                         *)
(* Two capture() calls of one event loop, each yielding at its awaits:     *)
(* classify, mkdir, writeFile, appendFile. cap holds the two calls; the    *)
(* store and the clock are the ones of the capture variables.              *)
(***************************************************************************)
CaptureCalls == {1, 2}

\* The thought of each call, and the answers the service gives: a person,
\* the same under the threshold, and an error text.
raceThought(i) == IF i = 1 THEN <<"call", SP, "Sarah">> ELSE <<"pay", SP, "rent">>
RaceResponses ==
    { <<TokJ(GoodPayload)>>,
      <<TokJ([GoodPayload EXCEPT !.confidence = JNum(Norm(3, 1))])>>,
      <<Tok("E"), Tok("P")>> }

CaptureRaceInit ==
    /\ capCfg = [confidenceThreshold |-> Norm(6, 1), gitEnabled |-> FALSE,
                 gitAutoCommit |-> FALSE]
    /\ \E resps \in [CaptureCalls -> RaceResponses] :
         cap = [pc |-> "race",
                calls |-> [i \in CaptureCalls |->
                             [NoCall EXCEPT !.pc = "classify", !.thought = raceThought(i),
                                            !.userId = VStr(<<"1", "2", "3">>),
                                            !.resp = resps[i]]]]
    /\ capRet = NoReturn
    /\ now = 0
    /\ store = {}
    /\ dirs = {}
    /\ auditLog = <<>>
    /\ commits = <<>>

\* The wall clock advances while the calls await.
RaceTick ==
    /\ cap.pc = "race"
    /\ \E i \in CaptureCalls : cap.calls[i].pc # "done"
    /\ now < MaxClock
    /\ now' = now + 1
    /\ UNCHANGED <<capCfg, cap, capRet, store, dirs, auditLog, commits>>
    /\ UNCHANGED nonCapVars

\* The service answers a call: classify returns, processCapture computes
\* the routing and awaits mkdir.
RaceClassifies ==
    \E i \in CaptureCalls :
        /\ cap.pc = "race" /\ cap.calls[i].pc = "classify"
        /\ LET value == classify(cap.calls[i].thought, cap.calls[i].resp).value
               needsReview == needsReviewOf(value, capCfg.confidenceThreshold)
           IN  cap' = [cap EXCEPT !.calls[i] =
                          [@ EXCEPT !.pc = "mkdir", !.classification = value,
                                    !.needsReview = needsReview,
                                    !.targetDir = targetDirOf(value, needsReview)]]
        /\ UNCHANGED <<capCfg, capRet, now, store, dirs, auditLog, commits>>
        /\ UNCHANGED nonCapVars

\* mkdir resolves for a call; the filename and the document are built and
\* writeFile is awaited.
RaceMkdir ==
    \E i \in CaptureCalls :
        /\ cap.pc = "race" /\ cap.calls[i].pc = "mkdir"
        /\ dirs' = mkdir(theStore, cap.calls[i].targetDir).dirs
        /\ cap' = [cap EXCEPT !.calls[i] =
               [@ EXCEPT !.pc = "write",
                         !.filename = generateFilename(cap.calls[i].classification, now),
                         !.fileContent =
                             stringifyFrontmatter(
                                 captureMetadata(cap.calls[i].classification, now),
                                 captureBody(cap.calls[i].thought,
                                             cap.calls[i].classification))]]
        /\ UNCHANGED <<capCfg, capRet, now, store, auditLog, commits>>
        /\ UNCHANGED nonCapVars

\* writeFile resolves for a call; the audit entry is built and appendFile
\* is awaited.
RaceWrites ==
    \E i \in CaptureCalls :
        /\ cap.pc = "race" /\ cap.calls[i].pc = "write"
        /\ store' = writeFile(theStore,
                              [dir |-> cap.calls[i].targetDir, name |-> cap.calls[i].filename],
                              cap.calls[i].fileContent).store
        /\ cap' = [cap EXCEPT !.calls[i] =
               [@ EXCEPT !.pc = "log",
                         !.entry = inboxEntry(cap.calls[i].thought,
                                              cap.calls[i].classification,
                                              cap.calls[i].filename,
                                              cap.calls[i].userId, now)]]
        /\ UNCHANGED <<capCfg, capRet, now, dirs, auditLog, commits>>
        /\ UNCHANGED nonCapVars

\* appendFile resolves for a call, and the call returns.
RaceAppends ==
    \E i \in CaptureCalls :
        /\ cap.pc = "race" /\ cap.calls[i].pc = "log"
        /\ auditLog' = appendFile(theStore, cap.calls[i].entry).auditLog
        /\ cap' = [cap EXCEPT !.calls[i].pc = "done"]
        /\ UNCHANGED <<capCfg, capRet, now, store, dirs, commits>>
        /\ UNCHANGED nonCapVars

(***************************************************************************)
(* Specifications                                                          *)
(***************************************************************************)
InitCodec == CdInit /\ ClsIdle /\ CapIdle /\ SchedIdle /\ OccIdle /\ FixIdle /\ ReadIdle /\ SvcIdle
NextCodec == Encode \/ Decode
SpecCodec == InitCodec /\ [][NextCodec]_vars

InitClassify == ClsInit /\ CdIdle /\ CapIdle /\ SchedIdle /\ OccIdle /\ FixIdle /\ ReadIdle /\ SvcIdle
NextClassify == Classify
SpecClassify == InitClassify /\ [][NextClassify]_vars

InitCapture == CapInit /\ CdIdle /\ ClsIdle /\ SchedIdle /\ OccIdle /\ FixIdle /\ ReadIdle /\ SvcIdle
NextCapture ==
    \/ CaptureCall \/ ServiceReplies \/ Tick
    \/ MkdirOk \/ MkdirFails
    \/ WriteOk \/ WriteFails
    \/ AppendOk \/ AppendFails
    \/ GitOk \/ GitFails
SpecCapture == InitCapture /\ [][NextCapture]_vars

InitSched == SchedInit /\ CdIdle /\ ClsIdle /\ CapIdle /\ OccIdle /\ FixIdle /\ ReadIdle /\ SvcIdle
NextSched ==
    \/ Start \/ Stop \/ SchedTick
    \/ TimerFires \/ GenerationResolves \/ DeliveryResolves \/ FiringFails
    \/ TriggerNow \/ ManualAdvances \/ ManualRejects
SpecSched == InitSched /\ [][NextSched]_vars

InitOcc == OccInit /\ CdIdle /\ ClsIdle /\ CapIdle /\ SchedIdle /\ FixIdle /\ ReadIdle /\ SvcIdle
NextOcc == AskDaily \/ AskWeekly
SpecOcc == InitOcc /\ [][NextOcc]_vars

InitStore == StoreInit /\ CdIdle /\ ClsIdle /\ SchedIdle /\ OccIdle /\ ReadIdle /\ SvcIdle
NextStore == StoreTick \/ Capture \/ Fix
SpecStore == InitStore /\ [][NextStore]_vars

InitLookup == LookInit /\ CdIdle /\ ClsIdle /\ CapIdle /\ SchedIdle /\ OccIdle /\ FixIdle /\ SvcIdle
NextLookup == Lookup \/ LookupUnreadable
SpecLookup == InitLookup /\ [][NextLookup]_vars

InitScan == ScanInit /\ CdIdle /\ ClsIdle /\ CapIdle /\ SchedIdle /\ OccIdle /\ FixIdle /\ SvcIdle
NextScan == ScanAll \/ ScanCategory
SpecScan == InitScan /\ [][NextScan]_vars

InitSynth ==
    /\ SynInit /\ mq = NoQueue /\ sess = NoSession /\ lck = NoLock /\ bot = NoBot
    /\ CdIdle /\ ClsIdle /\ CapIdle /\ SchedIdle /\ OccIdle /\ FixIdle /\ ReadIdle
NextSynth ==
    \/ GetActionableItems \/ PrioritizeActions \/ GetDailyActions \/ GetStats
    \/ GenerateDailyDigest \/ GenerateWeeklyReview
SpecSynth == InitSynth /\ [][NextSynth]_vars

InitQueue ==
    /\ QueueInit /\ syn = NoSyn /\ sess = NoSession /\ lck = NoLock /\ bot = NoBot
    /\ CdIdle /\ ClsIdle /\ CapIdle /\ SchedIdle /\ OccIdle /\ FixIdle /\ ReadIdle
NextQueue == Enqueue \/ RunTask \/ SettleTask
SpecQueue == InitQueue /\ [][NextQueue]_vars
\* The event loop runs a callback that is ready, and the functions of the
\* tasks settle.
SpecQueueFair == SpecQueue /\ WF_vars(RunTask) /\ WF_vars(SettleTask)

InitSession ==
    /\ SessionInit /\ syn = NoSyn /\ mq = NoQueue /\ lck = NoLock /\ bot = NoBot
    /\ CdIdle /\ ClsIdle /\ CapIdle /\ SchedIdle /\ OccIdle /\ FixIdle /\ ReadIdle
NextSession == UpdateActivity \/ ClearSession \/ SessionTick
SpecSession == InitSession /\ [][NextSession]_vars

InitLock ==
    /\ LockInit /\ syn = NoSyn /\ mq = NoQueue /\ sess = NoSession /\ bot = NoBot
    /\ CdIdle /\ ClsIdle /\ CapIdle /\ SchedIdle /\ OccIdle /\ FixIdle /\ ReadIdle
NextLock == Acquire \/ Release
SpecLock == InitLock /\ [][NextLock]_vars

InitBot ==
    /\ BotInit /\ syn = NoSyn /\ mq = NoQueue /\ sess = NoSession /\ lck = NoLock
    /\ CdIdle /\ ClsIdle /\ CapIdle /\ SchedIdle /\ OccIdle /\ FixIdle /\ ReadIdle
NextBot == HandleUpdate
SpecBot == InitBot /\ [][NextBot]_vars

InitLockRace ==
    /\ LockRaceInit /\ CdIdle /\ ClsIdle /\ CapIdle /\ SchedIdle /\ OccIdle /\ FixIdle /\ ReadIdle
    /\ syn = NoSyn /\ mq = NoQueue /\ sess = NoSession /\ bot = NoBot
NextLockRace == AcquireReads \/ AcquireWrites
SpecLockRace == InitLockRace /\ [][NextLockRace]_vars

InitSessionRace ==
    /\ SessionRaceInit /\ CdIdle /\ ClsIdle /\ CapIdle /\ SchedIdle /\ OccIdle /\ FixIdle /\ ReadIdle
    /\ syn = NoSyn /\ mq = NoQueue /\ lck = NoLock /\ bot = NoBot
NextSessionRace ==
    UpdateLoads \/ UpdateWritesTmp \/ UpdateRenames \/ ClearWritesTmp \/ ClearRenames
SpecSessionRace == InitSessionRace /\ [][NextSessionRace]_vars

InitScanRace == ScanRaceInit /\ CdIdle /\ ClsIdle /\ SchedIdle /\ OccIdle /\ SvcIdle
NextScanRace ==
    \/ ScanListsRoot \/ ScanReadsDir \/ ScanReturns
    \/ FixMakesDir \/ FixWritesFile \/ FixUnlinksFile \/ FixLogs
SpecScanRace == InitScanRace /\ [][NextScanRace]_vars

InitStatsRace ==
    /\ StatsRaceInit /\ CdIdle /\ ClsIdle /\ SchedIdle /\ OccIdle /\ ReadIdle
    /\ mq = NoQueue /\ sess = NoSession /\ lck = NoLock /\ bot = NoBot
NextStatsRace ==
    StatsScansAll \/ CaptureBetweenScans \/ FixBetweenScans \/ StatsScansReview
SpecStatsRace == InitStatsRace /\ [][NextStatsRace]_vars

InitCaptureRace ==
    CaptureRaceInit /\ CdIdle /\ ClsIdle /\ SchedIdle /\ OccIdle /\ FixIdle /\ ReadIdle /\ SvcIdle
NextCaptureRace == RaceTick \/ RaceClassifies \/ RaceMkdir \/ RaceWrites \/ RaceAppends
SpecCaptureRace == InitCaptureRace /\ [][NextCaptureRace]_vars

(***************************************************************************)
(* Claims                                                                  *)
(***************************************************************************)

\* The ways a response of the reasoning service can fail to classify.
ParseFailure(resp) == ~jsonParses(extractJson(resp))
SchemaFailure(resp) ==
    jsonParses(extractJson(resp)) /\ ~classificationSchema(extractJson(resp)[1].p)
Malformed(resp) == startsWithError(resp) \/ ParseFailure(resp) \/ SchemaFailure(resp)

\* A confidence or threshold in tenths.
Tenths(x) == x.m * Pow10(1 - x.e)

\* The subdirectory the store keeps for a category.
ClaimedDir(category) ==
    CASE category = "people" -> "People"
      [] category = "projects" -> "Projects"
      [] category = "ideas" -> "Ideas"
      [] category = "admin" -> "Admin"

Routed == cap.pc \in {"mkdir", "write", "log", "git"} \/ capRet.status = "returned"

\* C1: for every capture, needsReview is true if and only if the confidence
\* is strictly less than the configured threshold; the document is written
\* to the needs-review area exactly when needsReview is true and otherwise
\* to the subdirectory of its classified category; a confidence equal to
\* the threshold is not routed to needs-review.
C1_ThresholdRouting ==
    Routed =>
        LET conf == Tenths(cap.classification.confidence)
            threshold == Tenths(capCfg.confidenceThreshold)
            expected == IF conf < threshold THEN "_needs_review"
                        ELSE ClaimedDir(cap.classification.category)
        IN  /\ cap.needsReview <=> (conf < threshold)
            /\ (conf = threshold) => ~cap.needsReview
            /\ \A f \in store : f.dir = expected
            /\ capRet.status = "returned" =>
                  /\ capRet.result.needsReview <=> (conf < threshold)
                  /\ capRet.result.filePath[1] = expected
                  /\ \E f \in store : f.dir = expected /\ f.name = capRet.result.filename

\* A capture whose confidence equals a non-zero threshold has returned, its
\* document in the category's subdirectory.
C1_Witness ==
    /\ capRet.status = "returned"
    /\ cap.classification.confidence = capCfg.confidenceThreshold
    /\ Tenths(capCfg.confidenceThreshold) > 0
    /\ ~capRet.result.needsReview
    /\ \E f \in store : f.dir = "Projects"

\* C2: capture(thought, userId) never throws: whatever the reasoning service
\* returns, and whether or not mkdir, writeFile, the audit-log append or the
\* commit succeeds, it returns a CaptureResult.
C2_CaptureNeverThrows ==
    /\ capRet.status # "threw"
    /\ cap.pc = "done" => capRet.status = "returned"

\* C3: when the reasoning service is unreachable, times out or returns
\* malformed JSON, the capture that returns has routed its document to the
\* needs-review area, for every threshold the configuration accepts.
C3_ServiceFailureToReview ==
    (capRet.status = "returned" /\ Malformed(cap.resp)) =>
        /\ capRet.result.needsReview
        /\ \A f \in store : f.dir = "_needs_review"

\* C4: classify(text) never throws and always returns a storable
\* classification (category one of people, projects, ideas, admin;
\* confidence within 0.0 to 1.0), whatever the reasoning service answered:
\* a valid payload, an in-band error marker, or malformed output.
C4_ClassifyTotal ==
    clsPc = "done" =>
        /\ ~clsOut.threw
        /\ clsOut.value.category \in Categories
        /\ ~NumLess(clsOut.value.confidence, Norm(0, 0))
        /\ ~NumLess(Norm(1, 0), clsOut.value.confidence)

\* classify has returned on a response that is one JSON object the schema
\* rejects.
C4_Witness ==
    /\ clsPc = "done"
    /\ Len(clsResp) = 1
    /\ clsResp[1].k = "J"
    /\ clsResp[1].p \in BadPayloads
    /\ ~clsOut.threw


FallbackWith(reasoning, thought) ==
    [ category |-> "admin",
      confidence |-> Norm(0, 0),
      reasoning |-> reasoning,
      extracted_data |-> << <<<<"name">>, VStr(<<"unknown">>)>>,
                            <<<<"notes">>, VStr(thought)>> >> ]

C6_RoundTripLaw ==
    cdPc = "decoded" =>
        /\ metaMap(cdOut.metadata) = metaMap(cdMeta)
        /\ cdOut.content = cdBody

\* The timers outstanding for a job.
timersOf(j) == {t \in sched.timers : t.job = j}

\* Whether the configuration enables a job.
enabled(j) ==
    /\ schedCfg.digest
    /\ IF j = "daily" THEN schedCfg.daily.enabled ELSE schedCfg.weekly.enabled

\* C7: once stop() has been called, every job is idle and stays idle until
\* start() is called again: it holds no outstanding timer, does not fire
\* and is not re-armed, from every state in which stop() can be called,
\* including while a fired job's generation-and-delivery is still running.
C7_StoppedStaysIdle ==
    ~started =>
        /\ sched.timers = {}
        /\ \A j \in JobIds : sched.jobs[j] = NoJob

\* C8: while started the scheduler holds exactly one outstanding timer per
\* enabled job, never two for the same job, after any sequence of start(),
\* firings, reschedules, triggerNow() and stop(), repeated start() included.
\* (A job whose firing is in flight holds none until it is re-armed.)
C8_OneTimerPerJob ==
    started =>
        \A j \in JobIds :
            /\ Cardinality(timersOf(j)) <= 1
            /\ (enabled(j) /\ ~\E r \in running : r.job = j) =>
                  Cardinality(timersOf(j)) = 1

\* C9: when the generation or the delivery of a scheduled firing fails, the
\* failure is logged and not raised, and the job is re-armed for its next
\* occurrence regardless: a failing firing never ends the schedule.
C9_FailureLoggedAndRearmed ==
    /\ ~sched.unhandled
    /\ \A h \in rearms :
          h.failed =>
              /\ \E e \in sched.schedLog :
                    /\ e.job = h.job /\ e.timer = h.fired
                    /\ e.msg \in {"Daily digest failed", "Weekly review failed"}
              /\ Cardinality(h.armed) = 1
              /\ \A a \in h.armed : a.nextRun > h.at

\* A firing has failed, and the timer its callback armed is outstanding and
\* is the one the jobs map holds.
C9_Witness ==
    \E h \in rearms :
        /\ h.failed
        /\ \E a \in h.armed :
              /\ [id |-> a.timer, job |-> h.job, due |-> a.nextRun] \in sched.timers
              /\ sched.jobs[h.job] = [name |-> h.job, nextRun |-> a.nextRun, timer |-> a.timer]

occurrences(time, day, instant) ==
    {x \in (instant + 1) .. (instant + DaysPerWeek * DayLen + DayLen) :
        /\ (x % DayLen) = time
        /\ day = DaysPerWeek \/ ((x \div DayLen) % DaysPerWeek) = day}

C12_TriggerNowIndependent ==
    /\ [](manual # NoManual =>
            /\ manual.deliveries <= manual.generations /\ manual.generations <= 1
            /\ (manual.phase = "deliver") => (manual.generations = 1 /\ manual.deliveries = 0)
            /\ (manual.phase = "resolved" /\ manual.job \in JobIds) =>
                  (manual.generations = 1 /\ manual.deliveries = 1)
            /\ manual.job \notin JobIds =>
                  /\ manual.phase = "resolved"
                  /\ manual.generations = 0 /\ manual.deliveries = 0)
    /\ [][manual' # manual =>
            /\ sched'.timers = sched.timers
            /\ sched'.jobs = sched.jobs
            /\ running' = running]_vars

\* Manual runs of the daily job have resolved with both steps performed, on
\* a scheduler holding an armed daily timer.
C12_Witness ==
    /\ manual # NoManual
    /\ manual.phase = "resolved" /\ manual.job = "daily"
    /\ manual.generations = 1 /\ manual.deliveries = 1
    /\ started /\ \E t \in sched.timers : t.job = "daily"


(***************************************************************************)
(* The store under captures and fixes                                      *)
(***************************************************************************)
\* The metadata a stored document's text parses to.
metadataOf(f) == parseFrontmatter(f.content).metadata

\* C13: after any sequence of captures and fixes, the category field in the
\* metadata of every stored document is one of people, projects, ideas,
\* admin.
C13_StoredCategoryValid ==
    \A f \in store :
        /\ <<"category">> \in metaKeys(metadataOf(f))
        /\ \E i \in 1 .. Len(VALID_CATEGORIES) :
               metaGet(metadataOf(f), <<"category">>) = VStr(<<VALID_CATEGORIES[i]>>)

\* The body a stored document's text parses to.
bodyOf(f) == parseFrontmatter(f.content).content

\* C14: no capture and no fix deletes a stored document: a document that is
\* in the store before an operation is in the store after it, under its
\* name and with its body, in one of the store's directories.
C14_NoDocumentLost ==
    [][\A f \in store : \E g \in store' : g.name = f.name /\ bodyOf(g) = bodyOf(f)]_vars

\* C15: the audit log is append-only: across every capture and every fix
\* the log before the operation is a prefix of the log after it.
C15_AuditLogAppendOnly ==
    [][/\ Len(auditLog') >= Len(auditLog)
       /\ SubSeq(auditLog', 1, Len(auditLog)) = auditLog]_vars

\* A fix has appended its entry behind the entry of the capture it fixed.
C15_Witness ==
    /\ Len(auditLog) = 2
    /\ fix # NoFix /\ fix.result.success
    /\ auditLog[2] = fixEntry(fix.filename, fix.result.oldCategory, fix.newCategory,
                              fix.userId, now)
    /\ auditLog[1] # auditLog[2]

\* C16: a fixCapture whose newCategory is none of the four, or whose file is
\* in none of the five directories, returns a failure result and changes
\* neither the store nor the audit log.
C16_RejectedFixNoEffect ==
    [][(/\ fix' # fix
        /\ \/ ~isValidCategory(fix'.newCategory)
           \/ findFileByName(theStore, fix'.filename) = NoPath)
       => /\ ~fix'.threw /\ ~fix'.result.success
          /\ store' = store /\ dirs' = dirs /\ auditLog' = auditLog]_vars

\* A fix of a file that is nowhere has failed on a store that holds a
\* document and a log that holds its entry.
C16_Witness ==
    /\ fix # NoFix /\ ~fix.result.success
    /\ fix.result.message.kind = "not found"
    /\ store # {} /\ auditLog # <<>>

\* What a successful move leaves: no file at the old path, a file of the
\* same name under the new category's directory whose metadata category is
\* the new category, and the fix entry, old category to new category, as
\* the log's new last entry.
movedAndLogged ==
    /\ ~\E f \in store' : /\ f.dir = fix'.result.oldPath.dir
                          /\ f.name = fix'.result.oldPath.name
    /\ \E g \in store' :
          /\ g.dir = CATEGORY_DIRS(fix'.newCategory) /\ g.name = fix'.filename
          /\ <<"category">> \in metaKeys(metadataOf(g))
          /\ metaGet(metadataOf(g), <<"category">>) = VStr(<<fix'.newCategory>>)
    /\ auditLog' = Append(auditLog,
                        fixEntry(fix'.filename,
                                 oldCategoryOf(parseFrontmatter(
                                     readFile(theStore, fix'.result.oldPath)).metadata),
                                 fix'.newCategory, fix'.userId, now))

\* C17: after a successful fixCapture of a file to a category other than
\* the one its metadata held, the file is gone from its old location, is
\* under the new category's directory with metadata category the new
\* category, and the fix entry old category -> new category is appended.
C17_FixMovesAndRelabels ==
    [][(/\ fix' # fix /\ fix'.result.success
        /\ fix'.result.oldCategory # <<fix'.newCategory>>)
       => movedAndLogged]_vars

\* The same for the fixes whose new path is another path than the old one.
C17_MovedWhenPathsDiffer ==
    [][(/\ fix' # fix /\ fix'.result.success
        /\ fix'.result.oldPath # fix'.result.newPath)
       => movedAndLogged]_vars

\* The path the fix found its file at, in the store before the fix.
foundAt == findFileByName(theStore, fix'.filename)

\* The path the fix writes the file to.
writtenTo == [dir |-> CATEGORY_DIRS(fix'.newCategory), name |-> fix'.filename]

\* C18: when the write of the new file or the removal of the old file fails
\* during a fix, fixCapture does not throw and returns a failure result
\* carrying the failed call's error; nothing is rolled back: a failed write
\* leaves the store's files as they were, a failed removal leaves the new
\* file written and the old file in place; the fix is not logged.
C18_FailedFixNoRollback ==
    [][(/\ fix' # fix /\ isValidCategory(fix'.newCategory) /\ foundAt # NoPath
        /\ \/ fix'.fault = "write"
           \/ fix'.fault = "unlink" /\ foundAt # writtenTo)
       => /\ ~fix'.threw /\ ~fix'.result.success
          /\ fix'.result.message = [kind |-> "error", call |-> fix'.fault]
          /\ auditLog' = auditLog
          /\ \A f \in store : f.dir = foundAt.dir /\ f.name = foundAt.name => f \in store'
          /\ fix'.fault = "write" => store' = store
          /\ fix'.fault = "unlink" =>
                 \E g \in store' : /\ g.dir = writtenTo.dir /\ g.name = writtenTo.name
                                    /\ metaGet(metadataOf(g), <<"category">>)
                                           = VStr(<<fix'.newCategory>>)]_vars

\* A fix whose removal of the old file failed has returned its failure, and
\* the document is in the old directory and in the new one.
C18_Witness ==
    /\ fix # NoFix /\ fix.fault = "unlink" /\ ~fix.threw /\ ~fix.result.success
    /\ fix.result.message.call = "unlink"
    /\ \E f, g \in store : /\ f.name = fix.filename /\ g.name = fix.filename
                            /\ f.dir = fix.result.oldPath.dir
                            /\ g.dir = CATEGORY_DIRS(fix.newCategory)
                            /\ f.dir # g.dir

(***************************************************************************)
(* The readers                                                             *)
(***************************************************************************)
\* The user identifier an entry of the log carries.
userOf(e) == e.user

\* The entries of the log whose user identifier equals the userId.
entriesOf(log, userId) == {i \in 1 .. Len(log) : userOf(log[i]) = userId}

\* C19: the last-capture lookup returns the filename of the last entry, in
\* file order, whose user identifier equals the userId, and no match when
\* the log holds no entry of exactly that user.
C19_LastEntryOfUser ==
    look.pc = "answered" =>
        IF entriesOf(look.log, look.userId) = {}
        THEN look.out = NoMatch
        ELSE look.out = [found |-> TRUE,
                         file |-> look.log[SetMax(entriesOf(look.log, look.userId))].file]

\* The .md files of the directories a scan covers that can be listed and
\* whose read and stat succeed.
readablePaths ==
    { [dir |-> f.dir, name |-> f.name] :
          f \in { g \in scan.files :
                     /\ g.dir \in scan.scanned /\ g.dir \notin scan.unlistable
                     /\ endsWithMd(g.name)
                     /\ ~\E x \in scan.faults : x.dir = g.dir /\ x.name = g.name } }

\* C20: a scan does not throw; it returns the documents of exactly the
\* readable files of the directories it covers, so a file whose read or
\* stat fails is the only one left out; a missing data directory or
\* category directory gives no documents.
C20_ScanSkipsOnlyBadFiles ==
    scan.pc \in {"all", "category"} =>
        /\ ~scan.threw
        /\ {d.filepath : d \in scan.docs} = readablePaths
        /\ Cardinality(scan.docs) = Cardinality(readablePaths)
        /\ (~scan.root \/ scan.scanned = {}) => scan.docs = {}

\* A scan of all directories has left out a file of People that could not
\* be read and has returned the other document of People.
C20_Witness ==
    /\ scan.pc = "all" /\ ~scan.threw
    /\ \E x \in scan.faults :
          /\ x.dir = "People"
          /\ ~\E d \in scan.docs : d.filepath = [dir |-> x.dir, name |-> x.name]
          /\ \E d \in scan.docs : d.filepath.dir = "People" /\ d.filepath.name # x.name

\* The fields of a scanned document that the rules read: a field is present
\* when the frontmatter has its key, and non-empty when its parsed value is
\* truthy (a text with characters, a number other than zero, true, a list).
present(doc, key) == key \in metaKeys(doc.frontmatter)
nonEmpty(doc, key) == truthy(doc.frontmatter, key)
statusOf(doc) ==
    IF present(doc, <<"status">>) THEN metaGet(doc.frontmatter, <<"status">>) ELSE VNone
urgencyWords == {"urgent", "asap", "deadline", "overdue", "today", "tomorrow"}
mentions(doc, words) ==
    \E i \in 1 .. Len(doc.content) : \E w \in words : toLowerCase(doc.content[i]) = w

\* C21 as stated: getActionableItems returns exactly the scanned documents
\* that are projects whose status is "active" or "todo", people with a
\* present, non-empty follow-up field, or admin items with a due-date field
\* present or an urgency keyword in the body; ideas never.
C21_ActionableWhenDueDatePresent ==
    syn.pc = "getActionableItems" =>
        syn.out = SelectSeq(syn.docs, LAMBDA d :
            \/ d.category = VStr(<<"projects">>)
               /\ statusOf(d) \in {VStr(<<"active">>), VStr(<<"todo">>)}
            \/ d.category = VStr(<<"people">>)
               /\ present(d, <<"follow_ups">>) /\ nonEmpty(d, <<"follow_ups">>)
            \/ d.category = VStr(<<"admin">>)
               /\ (present(d, <<"due_date">>) \/ mentions(d, urgencyWords)))

\* C21 amended: getActionableItems returns exactly the scanned documents, in
\* scan order, that are projects whose status is "active" or "todo", people
\* with a non-empty follow-up field, or admin items with a non-empty
\* due-date field or an urgency keyword in the body; ideas never.
C21_ActionableWhenDueDateNonEmpty ==
    syn.pc = "getActionableItems" =>
        syn.out = SelectSeq(syn.docs, LAMBDA d :
            \/ d.category = VStr(<<"projects">>)
               /\ statusOf(d) \in {VStr(<<"active">>), VStr(<<"todo">>)}
            \/ d.category = VStr(<<"people">>) /\ nonEmpty(d, <<"follow_ups">>)
            \/ d.category = VStr(<<"admin">>)
               /\ (nonEmpty(d, <<"due_date">>) \/ mentions(d, urgencyWords)))

\* A scan with an admin note that is actionable for the word "Today" alone,
\* an idea and a person with an empty follow-up, of which the note alone is
\* returned.
C21_Witness ==
    /\ syn.pc = "getActionableItems"
    /\ Len(syn.out) = 1 /\ Len(syn.docs) = 3
    /\ syn.out[1].category = VStr(<<"admin">>)
    /\ ~present(syn.out[1], <<"due_date">>)
    /\ mentions(syn.out[1], {"today"})
    /\ \E i \in 1 .. 3 : syn.docs[i].category = VStr(<<"ideas">>)
    /\ \E i \in 1 .. 3 : syn.docs[i].category = VStr(<<"people">>)

\* C22: the actionable field of the statistics getStats returns equals the
\* number of stored documents that satisfy the actionability rules at the
\* time of the call.
C22_StatsCountActionable ==
    syn.pc = "getStats" =>
        syn.out.actionable = Cardinality({i \in 1 .. Len(syn.docs) : isActionable(syn.docs[i])})

\* The place of a document in a scan, and the day a document was created on
\* (the days are counted from the instant 0; no day for an invalid date).
placeIn(docs, d) == CHOOSE i \in 1 .. Len(docs) : docs[i] = d
createdOn(d, day) ==
    d.created.valid /\ day * DayLen <= d.created.at /\ d.created.at < (day + 1) * DayLen
createdFrom(d, day) == d.created.valid /\ day * DayLen <= d.created.at
SynDay == SynNow \div DayLen
scoreWords == {"urgent", "asap", "deadline", "overdue"}

\* Non-increasing order under a score, the documents of equal scores in
\* the order of the input, and nothing lost or added.
sortedUnder(out, docs, F(_)) ==
    /\ Len(out) = Len(docs)
    /\ {out[i] : i \in 1 .. Len(out)} = {docs[i] : i \in 1 .. Len(docs)}
    /\ \A i, j \in 1 .. Len(out) :
           i < j => \/ F(out[i]) > F(out[j])
                    \/ F(out[i]) = F(out[j]) /\ placeIn(docs, out[i]) < placeIn(docs, out[j])

\* C23 as stated: prioritizeActions returns a permutation of its input in
\* non-increasing score order, the score being +100 for a document that has
\* a due-date field, +50 if created today else +30 if created yesterday,
\* +20 if its status is "active" and +40 if its body matches the
\* urgency-keyword pattern; equal scores keep the input order.
C23_SortedByScoreOfPresentDueDate ==
    syn.pc = "prioritizeActions" =>
        sortedUnder(syn.out, syn.docs, LAMBDA d :
            (IF present(d, <<"due_date">>) THEN 100 ELSE 0)
            + (IF createdOn(d, SynDay) THEN 50
               ELSE IF createdOn(d, SynDay - 1) THEN 30 ELSE 0)
            + (IF statusOf(d) = VStr(<<"active">>) THEN 20 ELSE 0)
            + (IF mentions(d, scoreWords) THEN 40 ELSE 0))

\* C23 amended: the same, the score being +100 for a document whose
\* due-date field is non-empty, +50 if created today or later else +30 if
\* created yesterday, +20 if its status is "active" and +40 if its body
\* has one of the words urgent, asap, deadline, overdue.
C23_SortedByScoreOfNonEmptyDueDate ==
    syn.pc = "prioritizeActions" =>
        sortedUnder(syn.out, syn.docs, LAMBDA d :
            (IF nonEmpty(d, <<"due_date">>) THEN 100 ELSE 0)
            + (IF createdFrom(d, SynDay) THEN 50
               ELSE IF createdOn(d, SynDay - 1) THEN 30 ELSE 0)
            + (IF statusOf(d) = VStr(<<"active">>) THEN 20 ELSE 0)
            + (IF mentions(d, scoreWords) THEN 40 ELSE 0))

\* Four documents are sorted: the input begins with two of equal scores
\* (the person of yesterday and the note about today, 30 each), which keep
\* their order behind a document with a due date that came after them.
C23_Witness ==
    /\ syn.pc = "prioritizeActions"
    /\ Len(syn.docs) = 4
    /\ syn.docs[1].category = VStr(<<"people">>) /\ createdOn(syn.docs[1], SynDay - 1)
    /\ syn.docs[2].category = VStr(<<"admin">>) /\ mentions(syn.docs[2], {"today"})
    /\ nonEmpty(syn.docs[3], <<"due_date">>)
    /\ syn.out[1] = syn.docs[3]
    /\ placeIn(syn.out, syn.docs[1]) < placeIn(syn.out, syn.docs[2])

\* The score of a document on the day of the calls, and the actionable
\* documents of a scan.
itemScore(d) ==
    (IF nonEmpty(d, <<"due_date">>) THEN 100 ELSE 0)
    + (IF createdFrom(d, SynDay) THEN 50 ELSE IF createdOn(d, SynDay - 1) THEN 30 ELSE 0)
    + (IF statusOf(d) = VStr(<<"active">>) THEN 20 ELSE 0)
    + (IF mentions(d, scoreWords) THEN 40 ELSE 0)
actionableOf(docs) == {docs[i] : i \in {j \in 1 .. Len(docs) : isActionable(docs[j])}}
returned(out) == {out[i] : i \in 1 .. Len(out)}
limitOf(limit) == IF limit = NoLimit THEN 3 ELSE limit

\* C24: getDailyActions(limit) returns the first limit items (3 when no
\* limit is given) of the prioritized actionable items: min(limit, number
\* of actionable items) distinct actionable items in non-increasing score
\* order, equal scores in scan order; no omitted actionable item has a
\* strictly higher score than a returned one, nor an equal score and an
\* earlier place in the scan; with no actionable items the list is empty.
C24_DailyActionsAreTopOfPriority ==
    syn.pc = "getDailyActions" =>
        /\ Len(syn.out) = SetMin({limitOf(syn.limit), Cardinality(actionableOf(syn.docs))})
        /\ Cardinality(returned(syn.out)) = Len(syn.out)
        /\ returned(syn.out) \subseteq actionableOf(syn.docs)
        /\ \A i, j \in 1 .. Len(syn.out) :
               i < j => \/ itemScore(syn.out[i]) > itemScore(syn.out[j])
                        \/ /\ itemScore(syn.out[i]) = itemScore(syn.out[j])
                           /\ placeIn(syn.docs, syn.out[i]) < placeIn(syn.docs, syn.out[j])
        /\ \A x \in actionableOf(syn.docs) \ returned(syn.out) : \A y \in returned(syn.out) :
               \/ itemScore(x) < itemScore(y)
               \/ itemScore(x) = itemScore(y) /\ placeIn(syn.docs, y) < placeIn(syn.docs, x)
        /\ actionableOf(syn.docs) = {} => syn.out = <<>>

\* No limit is given and four documents are actionable: three are
\* returned, and the one left out came first in the scan.
C24_Witness ==
    /\ syn.pc = "getDailyActions" /\ syn.limit = NoLimit
    /\ Cardinality(actionableOf(syn.docs)) = 4
    /\ Len(syn.out) = 3
    /\ syn.docs[1] \notin returned(syn.out)

\* The documents of a scan captured in the seven days before the calls.
capturedThisWeek(docs) ==
    {docs[i] : i \in {j \in 1 .. Len(docs) :
         docs[j].created.valid /\ docs[j].created.at >= SynNow - DaysPerWeek * DayLen}}

\* C25: with no actionable items the daily digest, and with no captures in
\* the seven-day window the weekly review, is the generator's fixed message,
\* and no call is made of the reasoning service.
C25_NothingToNarrateNoCall ==
    /\ syn.pc = "generateDailyDigest" /\ actionableOf(syn.docs) = {}
           => syn.out = AllCaughtUp /\ syn.calls = 0
    /\ syn.pc = "generateWeeklyReview" /\ capturedThisWeek(syn.docs) = {}
           => syn.out = NoCapturesThisWeek /\ syn.calls = 0

\* The daily digest of a scan of two documents, neither actionable.
C25_Witness ==
    /\ syn.pc = "generateDailyDigest"
    /\ Len(syn.docs) = 2 /\ actionableOf(syn.docs) = {}
    /\ syn.out = AllCaughtUp /\ syn.calls = 0

\* C26: the tasks run one at a time in the order they were enqueued: never
\* are two tasks running, and a task has started only when every task
\* enqueued before it has settled, whenever the enqueue calls were made.
C26_OneTaskAtATimeInOrder ==
    mq.pc = "on" =>
        /\ Cardinality({i \in 1 .. Len(mq.tasks) : mq.tasks[i].state = "running"}) <= 1
        /\ \A i \in 1 .. Len(mq.tasks) :
               mq.tasks[i].state # "queued"
                   => \A j \in 1 .. i - 1 : mq.tasks[j].state \in {"done", "caught"}

\* A task is running behind one that has settled, and a third, enqueued
\* meanwhile, waits.
C26_Witness ==
    /\ mq.pc = "on" /\ Len(mq.tasks) = 3
    /\ mq.tasks[1].state = "done" /\ mq.tasks[2].state = "running"
    /\ mq.tasks[3].state = "queued" /\ ~mq.tasks[3].wasIdle
    /\ size(mq) = 1 /\ isProcessing(mq)

\* The tasks that ran to their end, whether or not they threw.
ranToEnd(i) == Len(mq.tasks) >= i /\ mq.tasks[i].state \in {"done", "caught"}

\* C27: a task that throws or rejects does not stop the queue: every task
\* enqueued, behind it or not, runs in the end, and whenever all the tasks
\* enqueued have settled, each of them has run, size() is 0 and
\* isProcessing() is false.
C27_ThrowingTaskDoesNotStopQueue ==
    /\ [](mq.pc = "on" /\ (\A i \in 1 .. Len(mq.tasks) : mq.tasks[i].state \in Settled)
              => /\ \A i \in 1 .. Len(mq.tasks) : ranToEnd(i)
                 /\ size(mq) = 0 /\ ~isProcessing(mq))
    /\ \A i \in 1 .. MaxTasks : (mq.pc = "on" /\ Len(mq.tasks) >= i) ~> ranToEnd(i)

\* The first of three tasks threw and the two behind it, one enqueued
\* before it ran and one while it ran, have run; the queue is at rest.
C27_Witness ==
    /\ mq.pc = "on" /\ Len(mq.tasks) = 3
    /\ mq.tasks[1].throws /\ mq.tasks[1].state = "caught"
    /\ ~mq.tasks[2].wasIdle /\ mq.tasks[2].state = "done"
    /\ ~mq.tasks[3].wasIdle /\ mq.tasks[3].state = "done"
    /\ size(mq) = 0 /\ ~isProcessing(mq)

\* C28: updateActivity(sessionId) persists a session state whose sessionId
\* is the given identifier, whose lastActivity is the current time, and
\* whose messageCount is one more than the count in the state it loaded.
C28_UpdatePersistsGivenId ==
    sess.pc = "updateActivity" =>
        /\ sess.file.kind = "json"
        /\ sess.file.state.sessionId = sess.given
        /\ sess.file.state.lastActivity = stampText(sess.now)
        /\ sess.file.state.messageCount = sess.loaded.messageCount + 1

\* The process a lock file names, if it names one, and whether it is alive.
namesProcess(file) == file.exists /\ parseIntOf(file.text) \in Pids
namesLiveProcess(file, procs) ==
    namesProcess(file) /\ procs[parseIntOf(file.text)] \in {"own", "foreign"}
namesDeadProcess(file, procs) ==
    namesProcess(file) /\ procs[parseIntOf(file.text)] = "dead"

\* C29: acquire() returns false and leaves the lock file unchanged when the
\* file names a process that is alive; when the file is absent or names a
\* process that no longer exists it writes the caller's PID and returns
\* true.
C29_AcquireIsStaleAware ==
    lck.pc = "acquire" =>
        /\ namesLiveProcess(lck.before, lck.procs) => ~lck.ok /\ lck.file = lck.before
        /\ ~lck.before.exists \/ namesDeadProcess(lck.before, lck.procs)
               => lck.ok /\ lck.file = lockFileOf(pidToString(lck.self))

\* C30: for an update whose sender is not the authorized user, no command
\* handler, capture, fix, session change, queue task or reasoning-service
\* call is run.
C30_UnauthorizedNeverProcessed ==
    bot.pc = "handled" /\ bot.update.from # bot.allowedUserId
        => bot.ran = "none" /\ bot.effects = {}

(***************************************************************************)
(* The store, further                                                      *)
(***************************************************************************)
\* The fields of a metadata other than the category, by key.
otherFields(meta) == [k \in metaKeys(meta) \ {<<"category">>} |-> metaGet(meta, k)]

C33_StoredMatchesResult ==
    capRet.status = "returned" =>
        \E f \in store :
            /\ <<f.dir, f.name>> = capRet.result.filePath
            /\ <<"category">> \in metaKeys(metadataOf(f))
            /\ metaGet(metadataOf(f), <<"category">>) = VStr(<<capRet.result.category>>)
            /\ <<"confidence">> \in metaKeys(metadataOf(f))
            /\ metaGet(metadataOf(f), <<"confidence">>) = VNum(capRet.result.confidence)

(***************************************************************************)
(* Extraction of the payload, further                                      *)
(***************************************************************************)
\* The first balanced brace span of a response when it is the text of one
\* JSON object: the first token that opens a brace is an object. <<>>
\* otherwise.
firstObject(resp) ==
    LET opens == {i \in 1..Len(resp) : resp[i].k \in {"L", "J"}}
    IN  IF opens = {} THEN <<>>
        ELSE IF resp[SetMin(opens)].k = "J" THEN <<resp[SetMin(opens)]>>
        ELSE <<>>

\* C34: when classify has returned on a response that is no in-band error
\* and holds no fenced block, and whose first balanced brace span is an
\* object the schema accepts, the classification is the one of that object,
\* whatever prose surrounds it.
C34_FirstObjectClassified ==
    ( /\ clsPc = "done"
      /\ ~startsWithError(clsResp)
      /\ codeBlockMatch(clsResp) = <<>>
      /\ firstObject(clsResp) # <<>>
      /\ classificationSchema(firstObject(clsResp)[1].p) )
    => clsOut = classify(clsThought, firstObject(clsResp))

\* C36: after any sequence of captures and fixes no filename is held by
\* two of the store's directories.
C36_FilenameInOneDirectory ==
    \A f \in store, g \in store : f.name = g.name => f.dir = g.dir

\* The fix wrote the relabelled file: it was asked for a valid category,
\* found the file, and its read, mkdir and writeFile were not rejected.
wroteRelabelled ==
    /\ isValidCategory(fix'.newCategory)
    /\ foundAt # NoPath
    /\ fix'.fault \notin {"read", "mkdir", "write"}
    /\ \E g \in store' : g.dir = writtenTo.dir /\ g.name = writtenTo.name

\* The fix appended a fix entry for its file to the audit log.
loggedFix ==
    /\ Len(auditLog') = Len(auditLog) + 1
    /\ auditLog'[Len(auditLog')].action = "Fix"
    /\ auditLog'[Len(auditLog')].file = fix'.filename

\* C40: a fixCapture call appends a fix entry for the file exactly when it
\* wrote the relabelled file, and reports success exactly in that case.
C40_LoggedIffChangedIffSuccess ==
    [][fix' # fix =>
          /\ loggedFix <=> wroteRelabelled
          /\ fix'.result.success <=> wroteRelabelled]_vars

\* The part of it the code keeps: a fix that reports success has written
\* the file and logged it, and a logged fix has reported success.
C40LoggedIffSuccess ==
    [][fix' # fix =>
          /\ loggedFix <=> fix'.result.success
          /\ fix'.result.success => wroteRelabelled]_vars

(***************************************************************************)
(* Concurrent calls                                                        *)
(***************************************************************************)
\* C35: of the acquire() calls of two live processes on one lock file, at
\* most one returns true.
C35_AtMostOneAcquires ==
    lck.pc = "race" =>
        Cardinality({p \in Callers : lck.calls[p].at = "returned" /\ lck.calls[p].ok}) <= 1

\* The same when the calls do not overlap: one has returned before the
\* other reads the file.
C35OneAfterTheOther ==
    [][(lck.pc = "race" /\ lck'.pc = "race")
        => \A p \in Callers :
              (/\ lck.calls[p].at = "start" /\ lck'.calls[p].at # "start"
               /\ \E q \in Callers : lck.calls[q].at = "returned" /\ lck.calls[q].ok)
              => lck'.calls[p].at = "returned" /\ ~lck'.calls[p].ok]_vars

\* C39: once a clear() and an updateActivity() that began before the clear
\* ended have both returned, the session file holds a message count of at
\* most 1 and a null session id.
C39_ClearNotUndone ==
    (sess.pc = "race" /\ sess.update.at = "returned" /\ sess.clear.at = "returned")
    => /\ sess.file.kind = "json"
       /\ sess.file.state.messageCount <= 1
       /\ sess.file.state.sessionId = NullId

\* The documents of the file being fixed among those the scan returned.
seenByScan == {d \in scan.docs : d.filename = fix.filename}

\* C37: a scan that runs while a fix runs returns the document being fixed
\* exactly once.
C37_ScanSeesFixedOnce ==
    (scan.pc = "race" /\ scan.at = "returned") => Cardinality(seenByScan) = 1

\* The sum of the counts a byCategory record holds.
RECURSIVE sumOver(_, _)
sumOver(counts, keys) ==
    IF keys = {} THEN 0
    ELSE applyTo(CHOOSE k \in keys : TRUE, LAMBDA k : counts[k] + sumOver(counts, keys \ {k}))

\* C38: in every result of getStats the per-category counts sum to total,
\* today <= week <= total, and needsReview <= total, also when a capture
\* or a fix ran between its two scans.
C38_StatsConsistent ==
    (syn.pc = "race" /\ syn.at = "returned") =>
        /\ sumOver(syn.out.byCategory, DOMAIN syn.out.byCategory) = syn.out.total
        /\ syn.out.today <= syn.out.week
        /\ syn.out.week <= syn.out.total
        /\ syn.out.needsReview <= syn.out.total

\* The part of it that rests on the first scan alone.
C38FirstScanCounts ==
    (syn.pc = "race" /\ syn.at = "returned") =>
        /\ sumOver(syn.out.byCategory, DOMAIN syn.out.byCategory) = syn.out.total
        /\ syn.out.today <= syn.out.week
        /\ syn.out.week <= syn.out.total

\* needsReview <= total in the results of the calls no capture and no fix
\* ran between the scans of.
C38UndisturbedReview ==
    (syn.pc = "race" /\ syn.at = "returned" /\ ops = 0) =>
        syn.out.needsReview <= syn.out.total

\* A call's writeFile has resolved.
hasWritten(i) == cap.calls[i].pc \in {"log", "done"}

\* No other call generated the call's filename.
ownFilename(i) ==
    \A j \in CaptureCalls \ {i} : cap.calls[j].filename # cap.calls[i].filename

\* C31: under every interleaving of two captures, a capture whose filename
\* the other did not generate has, once written, its document in the store
\* with the content it wrote, and, once returned, its own entry in the
\* audit log, which holds one entry for each returned capture.
C31_DistinctFilenamesDoNotInterfere ==
    cap.pc = "race" =>
        /\ \A i \in CaptureCalls : (hasWritten(i) /\ ownFilename(i)) =>
               [dir |-> cap.calls[i].targetDir, name |-> cap.calls[i].filename,
                content |-> cap.calls[i].fileContent] \in store
        /\ \A i \in CaptureCalls : cap.calls[i].pc = "done" =>
               \E k \in 1 .. Len(auditLog) : auditLog[k] = cap.calls[i].entry
        /\ Len(auditLog) = Cardinality({i \in CaptureCalls : cap.calls[i].pc = "done"})

\* Both captures have written into the same directory, under different
\* filenames, before either has appended its entry; and both have returned
\* after that.
C31_Witness ==
    /\ cap.pc = "race"
    /\ \A i \in CaptureCalls : cap.calls[i].pc = "log" /\ ownFilename(i)
    /\ cap.calls[1].targetDir = cap.calls[2].targetDir

\* Two captures that generated the same filename for the same directory
\* have both returned, and the store holds the document of one of them only.
C31SameFilenameOverwritten ==
    /\ cap.pc = "race"
    /\ \A i \in CaptureCalls : cap.calls[i].pc = "done"
    /\ cap.calls[1].filename = cap.calls[2].filename
    /\ cap.calls[1].targetDir = cap.calls[2].targetDir
    /\ Cardinality(store) = 1
====
